---- MODULE Spec2Model ----
\* A model of the nestjs-langgraph-agent-template: the Agent and Session
\* entities, the in-memory repositories, the agent use cases and the tool
\* registry.  JavaScript objects live in heaps (sequences indexed by object
\* reference), so that two holders of one object see each other's changes.
EXTENDS Integers, Sequences, FiniteSets, Bags, TLC

VARIABLES
  heap,      \* the Agent objects constructed so far, indexed by reference
  agents,    \* InMemoryAgentRepository.agents: a Map, as its entries in insertion order
  calls,     \* CreateAgentUseCase.execute invocations: where each one is suspended
  sheap,     \* the Session objects constructed so far, indexed by reference
  sessions,  \* InMemorySessionRepository.sessions: a Map, as its entries in insertion order
  tools,     \* ToolRegistryService.tools: a Map, as its entries in insertion order
  llmTools,  \* ToolRegistryService.llmTools: an array
  clock,     \* what new Date() reads
  llmCache,  \* OpenAILLMService.llmCache: a Map, as its entries in insertion order
  llms,      \* the ChatOpenAI instances constructed so far, indexed by reference
  memory,    \* InMemoryMemoryService.memories: a Map from session id to messages
  graph,     \* the graph run in progress: the node to run next and the graph state
  stream,    \* streamGraphEvents: the source consumed so far and the events emitted
  last       \* the step taken last: the operation, its arguments and its outcome

\* The state of the services and of the graphs, by group.
serviceVars == <<llmCache, llms, memory>>
graphVars == <<graph, stream>>

vars == <<heap, agents, calls, sheap, sessions, tools, llmTools, clock,
          serviceVars, graphVars, last>>

------------------------------------------------------------------------
\* Bounds of the model.

\* CreateAgentUseCase.execute invocations that can be in flight at once.
MaxCalls == 2
\* Agent objects the use cases may construct.
MaxCreated == 3
\* The largest skip and take of a page cursor.
MaxPage == 2
\* The latest reading of the clock.
MaxClock == 2
\* ToolRegistryService.register calls.
MaxRegistered == 3
\* Entities a caller constructs and then works on.
MaxEntities == 1
\* ChatOpenAI instances that can be constructed.
MaxLlms == 2
\* The largest maxIterations a graph is constructed with.
MaxIterations == 3
\* Messages a session's memory can hold.
MaxMessages == 3
\* Node steps of a run that has no end of its own.
MaxSteps == 6
\* Events a graph stream delivers before it completes or throws.
MaxSourceEvents == 2
\* Node steps of a RAG run that are followed.
MaxRagSteps == 9

------------------------------------------------------------------------
\* JavaScript values.

\* An optional value: undefined, or a value.
None == <<>>
Some(x) == <<x>>
IsSome(o) == o # <<>>
Val(o) == o[1]

\* A string is the sequence of its characters.
IsSpace(ch) == ch = " "

RECURSIVE TrimStart(_)
TrimStart(s) ==
  IF s # <<>> /\ IsSpace(Head(s)) THEN TrimStart(Tail(s)) ELSE s

RECURSIVE TrimEnd(_)
TrimEnd(s) ==
  IF s # <<>> /\ IsSpace(s[Len(s)]) THEN TrimEnd(SubSeq(s, 1, Len(s) - 1)) ELSE s

\* String.prototype.trim
Trim(s) == TrimEnd(TrimStart(s))

\* !s of an optional string: undefined and "" are falsy.
FalsyStr(o) == o = None \/ Val(o) = <<>>

\* !e of an optional enum value, a plain string: undefined and "" are falsy.
FalsyEnum(o) == o = None \/ Val(o) = ""

\* !n of an optional number: undefined and 0 are falsy.
FalsyNum(o) == o = None \/ Val(o) = 0

\* Array.prototype.slice(from, to) with 0 <= from <= to.
Min(a, b) == IF a < b THEN a ELSE b
Slice(arr, from, to) == SubSeq(arr, from + 1, Min(to, Len(arr)))

\* A Map, as the sequence of its [key, ref] entries in insertion order.
MapHas(m, k) == \E i \in DOMAIN m : m[i].key = k
MapGet(m, k) ==
  IF MapHas(m, k) THEN Some(m[CHOOSE i \in DOMAIN m : m[i].key = k].ref) ELSE None
MapSet(m, k, r) ==
  IF MapHas(m, k)
  THEN [i \in DOMAIN m |-> IF m[i].key = k THEN [key |-> k, ref |-> r] ELSE m[i]]
  ELSE Append(m, [key |-> k, ref |-> r])
\* delete as splice(indexOf(k), 1) on an array of entries: for a key that is
\* not there indexOf is -1, and splice(-1, 1) removes the last entry.
MapDeleteSplice(m, k) ==
  IF MapHas(m, k) THEN SelectSeq(m, LAMBDA e : e.key # k)
  ELSE SubSeq(m, 1, Len(m) - 1)

MapDelete(m, k) == SelectSeq(m, LAMBDA e : e.key # k)
\* Array.from(map.values())
MapValues(m) == [i \in DOMAIN m |-> m[i].ref]

------------------------------------------------------------------------
\* Domain errors.

DomainError(name, message, code, statusCode) ==
  [name |-> name, message |-> message, code |-> code, statusCode |-> statusCode]

\* AgentNotFoundError passing no status to super: DomainError's default applies.
AgentNotFoundErrorDefaultStatus(agentId) ==
  DomainError("AgentNotFoundError", <<"Agent with ID not found", agentId>>,
              "AGENT_NOT_FOUND", 400)

AgentNotFoundError(agentId) ==
  DomainError("AgentNotFoundError", <<"Agent with ID not found", agentId>>,
              "AGENT_NOT_FOUND", 404)

InvalidAgentConfigError(reason) ==
  DomainError("InvalidAgentConfigError", <<"Invalid agent configuration", reason>>,
              "INVALID_AGENT_CONFIG", 400)

ToolExecutionError(toolName, reason) ==
  DomainError("ToolExecutionError", <<"Tool execution failed", toolName, reason>>,
              "TOOL_EXECUTION_ERROR", 400)

\* A plain Error, as thrown by the entities and the repositories.
PlainError(message) == [name |-> "Error", message |-> message]

------------------------------------------------------------------------
\* The Agent entity.

\* Agent.validateConfig: the message of the Error it throws, or None.
AgentValidateConfig(config) ==
  IF FalsyStr(config.name) \/ Len(Trim(Val(config.name))) = 0
    THEN Some("Agent name cannot be empty")
  ELSE IF FalsyEnum(config.type)
    THEN Some("Agent type is required")
  ELSE IF config.llmConfig = None \/ FalsyStr(Val(config.llmConfig).modelName)
    THEN Some("LLM configuration with model name is required")
  ELSE IF ~FalsyNum(config.maxIterations) /\ Val(config.maxIterations) > 0
          /\ Val(config.maxIterations) < 1
    THEN Some("Max iterations must be greater than 0")
  ELSE IF ~FalsyNum(config.timeoutMs) /\ Val(config.timeoutMs) <= 0
    THEN Some("Timeout must be greater than 0")
  ELSE None

\* generateId: a fresh uuid.
generateId(h) == <<"uuid", ToString(Len(h) + 1)>>

\* new Agent(config, id, isActive): the object the constructor builds once
\* validateConfig has passed.
NewAgent(config, id, isActive, now) ==
  [id |-> id, config |-> config, isActive |-> isActive,
   createdAt |-> now, updatedAt |-> now]

getName(agent) == Val(agent.config.name)


------------------------------------------------------------------------
\* The Session entity.  Its expiry (expiresAt, isActive, setExpiration) and
\* updateMetadata are left out: no operation modelled here reads them.

ACTIVE == "active"
PAUSED == "paused"
COMPLETED == "completed"
FAILED == "failed"
INTERRUPTED == "interrupted"
SessionStatusEnum == {ACTIVE, PAUSED, COMPLETED, FAILED, INTERRUPTED}

\* new Session(agentId, sessionId, status): the object the constructor builds
\* for a non-empty agentId.
NewSession(agentId, sessionId, status, now) ==
  [sessionId |-> sessionId, agentId |-> agentId, status |-> status,
   createdAt |-> now, updatedAt |-> now,
   metadata |-> [failureReason |-> None, interruptReason |-> None]]

\* complete() as a plain assignment, with no test of the current status.
SessionCompleteUnguarded(s, now) ==
  [s EXCEPT !.status = COMPLETED, !.updatedAt = now]

\* Session.pause
SessionPause(s, now) ==
  IF s.status = ACTIVE
  THEN [s EXCEPT !.status = PAUSED, !.updatedAt = now]
  ELSE s

\* Session.resume
SessionResume(s, now) ==
  IF s.status = PAUSED
  THEN [s EXCEPT !.status = ACTIVE, !.updatedAt = now]
  ELSE s

\* Session.complete
SessionComplete(s, now) ==
  IF s.status = ACTIVE \/ s.status = PAUSED
  THEN [s EXCEPT !.status = COMPLETED, !.updatedAt = now]
  ELSE s

\* Session.fail(reason): reason is an optional string.
SessionFail(s, reason, now) ==
  [s EXCEPT !.status = FAILED, !.updatedAt = now,
            !.metadata.failureReason = IF FalsyStr(reason) THEN @ ELSE reason]

\* Session.interrupt(reason)
SessionInterrupt(s, reason, now) ==
  [s EXCEPT !.status = INTERRUPTED, !.updatedAt = now,
            !.metadata.interruptReason = IF FalsyStr(reason) THEN @ ELSE reason]

------------------------------------------------------------------------
\* Inputs.

TypeGeneral == "general"
ModelG == <<"g">>

\* An AgentConfig object.  kind is what typeof and the null test see.
Config(name, type, llmConfig, timeoutMs) ==
  [kind |-> "object", name |-> name, type |-> type, llmConfig |-> llmConfig,
   maxIterations |-> None, timeoutMs |-> timeoutMs]

ValidConfig(name) ==
  Config(Some(name), Some(TypeGeneral), Some([modelName |-> Some(ModelG)]), None)

NameInputs == {None, Some(<<>>), Some(<<" ">>), Some(<<"a">>), Some(<<"b">>)}
TypeInputs == {None, Some(TypeGeneral)}
LlmInputs == {None, Some([modelName |-> None]), Some([modelName |-> Some(<<>>)]),
              Some([modelName |-> Some(ModelG)])}

\* What a caller may hand to CreateAgentUseCase.execute: null, a value that is
\* no object, and config objects with each field present, empty or missing.
CreateInputs ==
  {[kind |-> "null"], [kind |-> "primitive"]}
    \cup {Config(n, t, l, None) : n \in NameInputs, t \in TypeInputs, l \in LlmInputs}
    \cup {Config(Some(<<"a">>), Some(TypeGeneral), Some([modelName |-> Some(ModelG)]), Some(-1))}

\* An id no agent has.
AbsentId == <<"id", "0">>

\* The Agent objects a caller has constructed with explicit ids before the
\* first step, as the repository's tests do in beforeEach: two objects share
\* an id and two share a name.
AgentPool ==
  << NewAgent(ValidConfig(<<"a">>), <<"id", "1">>, TRUE, 0),
     NewAgent(ValidConfig(<<"b">>), <<"id", "1">>, TRUE, 0),
     NewAgent(ValidConfig(<<"a">>), <<"id", "2">>, TRUE, 0),
     NewAgent(ValidConfig(<<"b">>), <<"id", "3">>, TRUE, 0) >>

\* The Session objects a caller has constructed before the first step: two
\* share a session id, two belong to one agent, two are active.
SessionPool ==
  << NewSession(<<"id", "1">>, <<"sid", "1">>, ACTIVE, 0),
     NewSession(<<"id", "2">>, <<"sid", "1">>, PAUSED, 0),
     NewSession(<<"id", "1">>, <<"sid", "2">>, ACTIVE, 0) >>

\* The owners and the statuses a caller asks sessions for: those of the pool,
\* and one of each that no session has.
OwnerInputs == {<<"id", "1">>, <<"id", "2">>, <<"id", "0">>}
StatusInputs == {ACTIVE, PAUSED, COMPLETED}

AbsentSessionId == <<"sid", "0">>
KnownSessionIds == {sheap[r].sessionId : r \in DOMAIN sheap} \cup {AbsentSessionId}

\* The page cursors a caller may pass: none, or any skip and take up to MaxPage.
Cursors ==
  {None} \cup {Some([skip |-> sk, take |-> tk]) : sk \in 0..MaxPage, tk \in 0..MaxPage}

------------------------------------------------------------------------
\* Pagination, as both repositories do it.

DefaultSkip == 0
DefaultTake == 10

\* cursor?.field
CursorSkip(cursor) == IF cursor = None THEN None ELSE Some(Val(cursor).skip)
CursorTake(cursor) == IF cursor = None THEN None ELSE Some(Val(cursor).take)

\* n || d
OrDefault(n, d) == IF FalsyNum(n) THEN d ELSE Val(n)

\* The PaginatedResponse built from the list of matches.
Page(list, cursor) ==
  LET skip == OrDefault(CursorSkip(cursor), DefaultSkip)
      take == OrDefault(CursorTake(cursor), DefaultTake)
  IN [data |-> Slice(list, skip, skip + take), total |-> Len(list),
      skip |-> skip, take |-> take]

------------------------------------------------------------------------
\* InMemoryAgentRepository.

\* findByName returning from the first iteration of its loop whatever the
\* name: it misses every agent but the first.
FindByNameFirstOnly(m, h, name) ==
  IF m # <<>> /\ getName(h[m[1].ref]) = name THEN Some(m[1].ref) ELSE None

\* findByName: the first stored agent, in insertion order, with that name.
FindByName(m, h, name) ==
  LET hits == {i \in DOMAIN m : getName(h[m[i].ref]) = name}
  IN IF hits = {} THEN None
     ELSE Some(m[CHOOSE i \in hits : \A j \in hits : i <= j].ref)

\* findById: this.agents.get(agentId) || null
FindById(m, agentId) == MapGet(m, agentId)

------------------------------------------------------------------------
\* CreateAgentUseCase.

\* validateConfig without the trim: a name of spaces passes.
UseCaseValidateConfigNoTrim(config) ==
  IF config.kind # "object"
    THEN Some("Configuration must be an object")
  ELSE IF FalsyStr(config.name)
    THEN Some("Agent name is required")
  ELSE IF FalsyEnum(config.type)
    THEN Some("Agent type is required")
  ELSE IF config.llmConfig = None
    THEN Some("LLM configuration is required")
  ELSE IF FalsyStr(Val(config.llmConfig).modelName)
    THEN Some("LLM model name is required")
  ELSE None

\* CreateAgentUseCase.validateConfig: the reason of the InvalidAgentConfigError
\* it throws, or None.
UseCaseValidateConfig(config) ==
  IF config.kind # "object"
    THEN Some("Configuration must be an object")
  ELSE IF FalsyStr(config.name) \/ Len(Trim(Val(config.name))) = 0
    THEN Some("Agent name is required")
  ELSE IF FalsyEnum(config.type)
    THEN Some("Agent type is required")
  ELSE IF config.llmConfig = None
    THEN Some("LLM configuration is required")
  ELSE IF FalsyStr(Val(config.llmConfig).modelName)
    THEN Some("LLM model name is required")
  ELSE None

InFlight == BagCardinality(calls)
Replace(call, next) == (calls (-) SetToBag({call})) (+) SetToBag({next})

\* execute, up to its first await: validateConfig, then the call of findByName.
ExecuteCall(config) ==
  /\ InFlight < MaxCalls
  /\ Len(heap) + InFlight < MaxCreated
  /\ LET invalid == UseCaseValidateConfig(config)
     IN IF IsSome(invalid)
        THEN /\ last' = [op |-> "create", step |-> "rejected", config |-> config,
                         error |-> InvalidAgentConfigError(Val(invalid))]
             /\ calls' = calls
        ELSE LET call == [pc |-> "findByName", config |-> config,
                          existing |-> FindByName(agents, heap, Val(config.name)),
                          agent |-> None]
             IN /\ calls' = calls (+) SetToBag({call})
                /\ last' = [op |-> "create", step |-> "called", config |-> config,
                            call |-> call]
  /\ UNCHANGED <<heap, agents, sheap, sessions, tools, llmTools, clock, serviceVars, graphVars>>

\* execute, resumed after findByName up to its second await: the duplicate
\* check, new Agent(config) and the call of save.
ExecuteAfterFindByName(call) ==
  /\ call \in BagToSet(calls)
  /\ call.pc = "findByName"
  /\ IF IsSome(call.existing)
     THEN /\ last' = [op |-> "create", step |-> "threw", config |-> call.config,
                      call |-> call,
                      error |-> InvalidAgentConfigError(
                                  <<"Agent with name already exists", Val(call.config.name)>>)]
          /\ calls' = calls (-) SetToBag({call})
          /\ UNCHANGED <<heap, agents, serviceVars, graphVars>>
     ELSE LET thrown == AgentValidateConfig(call.config)
          IN IF IsSome(thrown)
             THEN /\ last' = [op |-> "create", step |-> "threw", config |-> call.config,
                              call |-> call,
                              error |-> InvalidAgentConfigError(Val(thrown))]
                  /\ calls' = calls (-) SetToBag({call})
                  /\ UNCHANGED <<heap, agents, serviceVars, graphVars>>
             ELSE LET agent == NewAgent(call.config, generateId(heap), TRUE, clock)
                      ref == Len(heap) + 1
                      next == [call EXCEPT !.pc = "save", !.agent = Some(ref)]
                  IN /\ heap' = Append(heap, agent)
                     /\ agents' = MapSet(agents, agent.id, ref)
                     /\ calls' = Replace(call, next)
                     /\ last' = [op |-> "create", step |-> "saved",
                                 config |-> call.config, call |-> call]
  /\ UNCHANGED <<sheap, sessions, tools, llmTools, clock, serviceVars, graphVars>>

\* execute, resumed after save: return agent.
ExecuteAfterSave(call) ==
  /\ call \in BagToSet(calls)
  /\ call.pc = "save"
  /\ calls' = calls (-) SetToBag({call})
  /\ last' = [op |-> "create", step |-> "returned", config |-> call.config,
              call |-> call, agent |-> Val(call.agent)]
  /\ UNCHANGED <<heap, agents, sheap, sessions, tools, llmTools, clock, serviceVars, graphVars>>


------------------------------------------------------------------------
\* GetAgentUseCase.

\* execute: findById, then AgentNotFoundError for null.  findById settles at
\* once and nothing is read after the await, so the call is one step.
GetAgentExecute(agentId) ==
  /\ LET agent == FindById(agents, agentId)
     IN last' = IF ~IsSome(agent)
                THEN [op |-> "getAgent", agentId |-> agentId, step |-> "threw",
                      error |-> AgentNotFoundError(agentId)]
                ELSE [op |-> "getAgent", agentId |-> agentId, step |-> "returned",
                      agent |-> Val(agent)]
  /\ UNCHANGED <<heap, agents, calls, sheap, sessions, tools, llmTools, clock, serviceVars, graphVars>>

\* InMemoryAgentRepository.delete
AgentDelete(agentId) ==
  /\ agents' = MapDelete(agents, agentId)
  /\ last' = [op |-> "agents.delete", agentId |-> agentId, step |-> "returned"]
  /\ UNCHANGED <<heap, calls, sheap, sessions, tools, llmTools, clock, serviceVars, graphVars>>

\* save that keeps the agent already stored under the id.
AgentSaveKeepFirst(ref) ==
  /\ agents' = IF MapHas(agents, heap[ref].id) THEN agents
               ELSE MapSet(agents, heap[ref].id, ref)
  /\ last' = [op |-> "agents.save", ref |-> ref, agentId |-> heap[ref].id,
              step |-> "returned"]
  /\ UNCHANGED <<heap, calls, sheap, sessions, tools, llmTools, clock, serviceVars, graphVars>>

\* InMemoryAgentRepository.save
AgentSave(ref) ==
  /\ agents' = MapSet(agents, heap[ref].id, ref)
  /\ last' = [op |-> "agents.save", ref |-> ref, agentId |-> heap[ref].id,
              step |-> "returned"]
  /\ UNCHANGED <<heap, calls, sheap, sessions, tools, llmTools, clock, serviceVars, graphVars>>

\* InMemoryAgentRepository.update: the throw is a synchronous one, update
\* being no async function.
AgentUpdate(ref) ==
  /\ IF ~MapHas(agents, heap[ref].id)
     THEN /\ last' = [op |-> "agents.update", ref |-> ref, agentId |-> heap[ref].id,
                      step |-> "threw", sync |-> TRUE,
                      error |-> PlainError(<<"Agent with ID not found", heap[ref].id>>)]
          /\ agents' = agents
     ELSE /\ agents' = MapSet(agents, heap[ref].id, ref)
          /\ last' = [op |-> "agents.update", ref |-> ref, agentId |-> heap[ref].id,
                      step |-> "returned"]
  /\ UNCHANGED <<heap, calls, sheap, sessions, tools, llmTools, clock, serviceVars, graphVars>>

\* The queries of InMemoryAgentRepository: each returns a settled promise and
\* changes nothing.
AgentFindById(agentId) ==
  /\ last' = [op |-> "agents.findById", agentId |-> agentId,
              result |-> FindById(agents, agentId)]
  /\ UNCHANGED <<heap, agents, calls, sheap, sessions, tools, llmTools, clock, serviceVars, graphVars>>

AgentFindByName(name) ==
  /\ last' = [op |-> "agents.findByName", name |-> name,
              result |-> FindByName(agents, heap, name)]
  /\ UNCHANGED <<heap, agents, calls, sheap, sessions, tools, llmTools, clock, serviceVars, graphVars>>

AgentFindAll(cursor) ==
  /\ last' = [op |-> "agents.findAll", cursor |-> cursor,
              result |-> Page(MapValues(agents), cursor)]
  /\ UNCHANGED <<heap, agents, calls, sheap, sessions, tools, llmTools, clock, serviceVars, graphVars>>

AgentExists(agentId) ==
  /\ last' = [op |-> "agents.exists", agentId |-> agentId,
              result |-> MapHas(agents, agentId)]
  /\ UNCHANGED <<heap, agents, calls, sheap, sessions, tools, llmTools, clock, serviceVars, graphVars>>

AgentCount ==
  /\ last' = [op |-> "agents.count", result |-> Len(agents)]
  /\ UNCHANGED <<heap, agents, calls, sheap, sessions, tools, llmTools, clock, serviceVars, graphVars>>

------------------------------------------------------------------------
\* InMemorySessionRepository.

\* Array.from(this.sessions.values()).filter(...), by owner and by status.
SessionsOfAgent(agentId) ==
  SelectSeq(MapValues(sessions), LAMBDA r : sheap[r].agentId = agentId)
SessionsWithStatus(status) ==
  SelectSeq(MapValues(sessions), LAMBDA r : sheap[r].status = status)

SessionSave(ref) ==
  /\ sessions' = MapSet(sessions, sheap[ref].sessionId, ref)
  /\ last' = [op |-> "sessions.save", ref |-> ref, sessionId |-> sheap[ref].sessionId,
              step |-> "returned"]
  /\ UNCHANGED <<heap, agents, calls, sheap, tools, llmTools, clock, serviceVars, graphVars>>

SessionUpdate(ref) ==
  /\ IF ~MapHas(sessions, sheap[ref].sessionId)
     THEN /\ last' = [op |-> "sessions.update", ref |-> ref,
                      sessionId |-> sheap[ref].sessionId,
                      step |-> "threw", sync |-> TRUE,
                      error |-> PlainError(<<"Session with ID not found",
                                             sheap[ref].sessionId>>)]
          /\ sessions' = sessions
     ELSE /\ sessions' = MapSet(sessions, sheap[ref].sessionId, ref)
          /\ last' = [op |-> "sessions.update", ref |-> ref,
                      sessionId |-> sheap[ref].sessionId, step |-> "returned"]
  /\ UNCHANGED <<heap, agents, calls, sheap, tools, llmTools, clock, serviceVars, graphVars>>

SessionDelete(sessionId) ==
  /\ sessions' = MapDelete(sessions, sessionId)
  /\ last' = [op |-> "sessions.delete", sessionId |-> sessionId, step |-> "returned"]
  /\ UNCHANGED <<heap, agents, calls, sheap, tools, llmTools, clock, serviceVars, graphVars>>

SessionFindById(sessionId) ==
  /\ last' = [op |-> "sessions.findById", sessionId |-> sessionId,
              result |-> MapGet(sessions, sessionId)]
  /\ UNCHANGED <<heap, agents, calls, sheap, sessions, tools, llmTools, clock, serviceVars, graphVars>>

SessionFindByAgentId(agentId, cursor) ==
  /\ last' = [op |-> "sessions.findByAgentId", agentId |-> agentId, cursor |-> cursor,
              result |-> Page(SessionsOfAgent(agentId), cursor)]
  /\ UNCHANGED <<heap, agents, calls, sheap, sessions, tools, llmTools, clock, serviceVars, graphVars>>

SessionFindByStatus(status, cursor) ==
  /\ last' = [op |-> "sessions.findByStatus", status |-> status, cursor |-> cursor,
              result |-> Page(SessionsWithStatus(status), cursor)]
  /\ UNCHANGED <<heap, agents, calls, sheap, sessions, tools, llmTools, clock, serviceVars, graphVars>>

SessionExists(sessionId) ==
  /\ last' = [op |-> "sessions.exists", sessionId |-> sessionId,
              result |-> MapHas(sessions, sessionId)]
  /\ UNCHANGED <<heap, agents, calls, sheap, sessions, tools, llmTools, clock, serviceVars, graphVars>>

\* The ids a caller can name: the explicit ones, the generated ones, one that
\* is never used.
KnownIds == {heap[r].id : r \in DOMAIN heap} \cup {AbsentId}

------------------------------------------------------------------------
\* The services as constructed, and no entity constructed yet.
Init ==
  /\ heap = <<>>
  /\ agents = <<>>
  /\ calls = EmptyBag
  /\ sheap = <<>>
  /\ sessions = <<>>
  /\ tools = <<>>
  /\ llmTools = <<>>
  /\ clock = 0
  /\ llmCache = <<>>
  /\ llms = <<>>
  /\ memory = <<>>
  /\ graph = [kind |-> "none", node |-> "END"]
  /\ stream = [pc |-> "none"]
  /\ last = [op |-> "init"]

\* The repositories as constructed, and the entities of the pools constructed
\* beside them.
InitWithPools ==
  /\ heap = AgentPool
  /\ agents = <<>>
  /\ calls = EmptyBag
  /\ sheap = SessionPool
  /\ sessions = <<>>
  /\ tools = <<>>
  /\ llmTools = <<>>
  /\ clock = 0
  /\ llmCache = <<>>
  /\ llms = <<>>
  /\ memory = <<>>
  /\ graph = [kind |-> "none", node |-> "END"]
  /\ stream = [pc |-> "none"]
  /\ last = [op |-> "init"]

------------------------------------------------------------------------
\* The Agent entity's operations, on the objects of the heap.

\* a ?? b
OrElse(o, d) == IF o = None THEN d ELSE Val(o)

\* { ...config, ...partial }: the fields partial has, undefined ones
\* included, override.
Spread(config, partial) ==
  [k \in DOMAIN config |-> IF k \in DOMAIN partial THEN partial[k] ELSE config[k]]

\* new Agent(config, id, isActive)
AgentConstruct(config, id, isActive) ==
  /\ Len(heap) < MaxEntities
  /\ LET thrown == AgentValidateConfig(config)
     IN IF IsSome(thrown)
        THEN /\ last' = [op |-> "agent.new", config |-> config, step |-> "threw",
                         error |-> PlainError(Val(thrown))]
             /\ heap' = heap
        ELSE /\ heap' = Append(heap, NewAgent(config, OrElse(id, generateId(heap)),
                                              OrElse(isActive, TRUE), clock))
             /\ last' = [op |-> "agent.new", config |-> config, step |-> "returned",
                         ref |-> Len(heap) + 1]
  /\ UNCHANGED <<agents, calls, sheap, sessions, tools, llmTools, clock, serviceVars, graphVars>>

\* updateConfig assigning the merged config before it validates it.
AgentUpdateConfigAssignFirst(ref, partial) ==
  /\ LET mergedConfig == Spread(heap[ref].config, partial)
         thrown == AgentValidateConfig(mergedConfig)
     IN IF IsSome(thrown)
        THEN /\ last' = [op |-> "agent.updateConfig", ref |-> ref, partial |-> partial,
                         step |-> "threw", error |-> PlainError(Val(thrown))]
             /\ heap' = [heap EXCEPT ![ref].config = mergedConfig]
        ELSE /\ heap' = [heap EXCEPT ![ref].config = mergedConfig,
                                     ![ref].updatedAt = clock]
             /\ last' = [op |-> "agent.updateConfig", ref |-> ref, partial |-> partial,
                         step |-> "returned"]
  /\ UNCHANGED <<agents, calls, sheap, sessions, tools, llmTools, clock, serviceVars, graphVars>>

\* updateConfig setting updatedAt before it validates the merged config.
AgentUpdateConfigStampFirst(ref, partial) ==
  /\ LET mergedConfig == Spread(heap[ref].config, partial)
         thrown == AgentValidateConfig(mergedConfig)
     IN IF IsSome(thrown)
        THEN /\ last' = [op |-> "agent.updateConfig", ref |-> ref, partial |-> partial,
                         step |-> "threw", error |-> PlainError(Val(thrown))]
             /\ heap' = [heap EXCEPT ![ref].updatedAt = clock]
        ELSE /\ heap' = [heap EXCEPT ![ref].config = mergedConfig,
                                     ![ref].updatedAt = clock]
             /\ last' = [op |-> "agent.updateConfig", ref |-> ref, partial |-> partial,
                         step |-> "returned"]
  /\ UNCHANGED <<agents, calls, sheap, sessions, tools, llmTools, clock, serviceVars, graphVars>>

\* Agent.updateConfig
AgentUpdateConfig(ref, partial) ==
  /\ LET mergedConfig == Spread(heap[ref].config, partial)
         thrown == AgentValidateConfig(mergedConfig)
     IN IF IsSome(thrown)
        THEN /\ last' = [op |-> "agent.updateConfig", ref |-> ref, partial |-> partial,
                         step |-> "threw", error |-> PlainError(Val(thrown))]
             /\ heap' = heap
        ELSE /\ heap' = [heap EXCEPT ![ref].config = mergedConfig,
                                     ![ref].updatedAt = clock]
             /\ last' = [op |-> "agent.updateConfig", ref |-> ref, partial |-> partial,
                         step |-> "returned"]
  /\ UNCHANGED <<agents, calls, sheap, sessions, tools, llmTools, clock, serviceVars, graphVars>>

\* Agent.activate
AgentActivate(ref) ==
  /\ heap' = IF ~heap[ref].isActive
             THEN [heap EXCEPT ![ref].isActive = TRUE, ![ref].updatedAt = clock]
             ELSE heap
  /\ last' = [op |-> "agent.activate", ref |-> ref, step |-> "returned"]
  /\ UNCHANGED <<agents, calls, sheap, sessions, tools, llmTools, clock, serviceVars, graphVars>>

\* Agent.deactivate
AgentDeactivate(ref) ==
  /\ heap' = IF heap[ref].isActive
             THEN [heap EXCEPT ![ref].isActive = FALSE, ![ref].updatedAt = clock]
             ELSE heap
  /\ last' = [op |-> "agent.deactivate", ref |-> ref, step |-> "returned"]
  /\ UNCHANGED <<agents, calls, sheap, sessions, tools, llmTools, clock, serviceVars, graphVars>>

\* Time passes: new Date() reads a later time.
Tick ==
  /\ clock < MaxClock
  /\ clock' = clock + 1
  /\ last' = [op |-> "tick"]
  /\ UNCHANGED <<heap, agents, calls, sheap, sessions, tools, llmTools, serviceVars, graphVars>>

\* The configs a caller constructs agents from, and the partial configs it
\* updates them with: each field valid, empty or undefined.
EntityConfigs ==
  {ValidConfig(<<"a">>),
   Config(Some(<<>>), Some(TypeGeneral), Some([modelName |-> Some(ModelG)]), None),
   Config(Some(<<"a">>), None, Some([modelName |-> Some(ModelG)]), None),
   Config(Some(<<"a">>), Some(TypeGeneral), None, None),
   Config(Some(<<"a">>), Some(TypeGeneral), Some([modelName |-> Some(ModelG)]), Some(-1))}

Partials ==
  {<<>>,
   [name |-> Some(<<"b">>)], [name |-> Some(<<>>)], [name |-> Some(<<" ">>)],
   [name |-> None], [type |-> None], [type |-> Some("")],
   [llmConfig |-> None], [llmConfig |-> Some([modelName |-> None])],
   [llmConfig |-> Some([modelName |-> Some(<<>>)])],
   [maxIterations |-> Some(20)], [timeoutMs |-> Some(-1)],
   [name |-> Some(<<>>), maxIterations |-> Some(20)]}

NextAgentEntity ==
  \/ \E config \in EntityConfigs, isActive \in {None, Some(FALSE)} :
       AgentConstruct(config, None, isActive)
  \/ \E ref \in DOMAIN heap, partial \in Partials : AgentUpdateConfig(ref, partial)
  \/ \E ref \in DOMAIN heap : AgentActivate(ref)
  \/ \E ref \in DOMAIN heap : AgentDeactivate(ref)
  \/ Tick

SpecAgentEntity == Init /\ [][NextAgentEntity]_vars

\* Two agents as new Agent(config, id, isActive) leaves them, one active and
\* one not, and nothing else constructed.
InitWithAgents ==
  /\ heap = << NewAgent(ValidConfig(<<"a">>), <<"id", "1">>, TRUE, 0),
               NewAgent(ValidConfig(<<"b">>), <<"id", "2">>, FALSE, 0) >>
  /\ agents = <<>>
  /\ calls = EmptyBag
  /\ sheap = <<>>
  /\ sessions = <<>>
  /\ tools = <<>>
  /\ llmTools = <<>>
  /\ clock = 0
  /\ llmCache = <<>>
  /\ llms = <<>>
  /\ memory = <<>>
  /\ graph = [kind |-> "none", node |-> "END"]
  /\ stream = [pc |-> "none"]
  /\ last = [op |-> "init"]

\* The operations on agents that exist: their configs are updated and their
\* active flags set while time passes.
NextAgentConfig ==
  \/ \E ref \in DOMAIN heap, partial \in Partials : AgentUpdateConfig(ref, partial)
  \/ \E ref \in DOMAIN heap : AgentActivate(ref)
  \/ \E ref \in DOMAIN heap : AgentDeactivate(ref)
  \/ Tick

SpecAgentConfig == InitWithAgents /\ [][NextAgentConfig]_vars

------------------------------------------------------------------------
\* The Session entity's operations, on the objects of the session heap.

\* generateSessionId: a fresh uuid.
generateSessionId(h) == <<"uuid", ToString(Len(h) + 1)>>

\* new Session(agentId, sessionId, status)
SessionConstruct(agentId, sessionId, status) ==
  /\ Len(sheap) < MaxEntities
  /\ IF FalsyStr(Some(agentId)) \/ Len(Trim(agentId)) = 0
     THEN /\ last' = [op |-> "session.new", agentId |-> agentId, step |-> "threw",
                      error |-> PlainError("Agent ID cannot be empty")]
          /\ sheap' = sheap
     ELSE /\ sheap' = Append(sheap, NewSession(agentId,
                                               OrElse(sessionId, generateSessionId(sheap)),
                                               OrElse(status, ACTIVE), clock))
          /\ last' = [op |-> "session.new", agentId |-> agentId, step |-> "returned",
                      ref |-> Len(sheap) + 1]
  /\ UNCHANGED <<heap, agents, calls, sessions, tools, llmTools, clock, serviceVars, graphVars>>

\* A call of one of the session's status-changing methods.
SessionCall(ref, op, after) ==
  /\ sheap' = [sheap EXCEPT ![ref] = after]
  /\ last' = [op |-> op, ref |-> ref, step |-> "returned"]
  /\ UNCHANGED <<heap, agents, calls, sessions, tools, llmTools, clock, serviceVars, graphVars>>

DoPause(ref) == SessionCall(ref, "session.pause", SessionPause(sheap[ref], clock))
DoResume(ref) == SessionCall(ref, "session.resume", SessionResume(sheap[ref], clock))
DoComplete(ref) == SessionCall(ref, "session.complete", SessionComplete(sheap[ref], clock))
DoFail(ref, reason) ==
  SessionCall(ref, "session.fail", SessionFail(sheap[ref], reason, clock))
DoInterrupt(ref, reason) ==
  SessionCall(ref, "session.interrupt", SessionInterrupt(sheap[ref], reason, clock))

\* The reasons a caller gives: none, the empty string, a text.
ReasonInputs == {None, Some(<<>>), Some(<<"r">>)}

NextSessionEntity ==
  \/ \E agentId \in {<<>>, <<" ">>, <<"id", "1">>},
        status \in {None} \cup {Some(st) : st \in SessionStatusEnum} :
       SessionConstruct(agentId, None, status)
  \/ \E ref \in DOMAIN sheap : DoPause(ref)
  \/ \E ref \in DOMAIN sheap : DoResume(ref)
  \/ \E ref \in DOMAIN sheap : DoComplete(ref)
  \/ \E ref \in DOMAIN sheap, reason \in ReasonInputs : DoFail(ref, reason)
  \/ \E ref \in DOMAIN sheap, reason \in ReasonInputs : DoInterrupt(ref, reason)
  \/ Tick

SpecSessionEntity == Init /\ [][NextSessionEntity]_vars

------------------------------------------------------------------------
\* ToolRegistryService.  A ToolDefinition is never changed once built, so the
\* Map holds it as a value; fn names its execute function.

ToolDef(id, name, fn) == [id |-> id, name |-> name, fn |-> fn]

\* The definitions a caller registers: two share an id, two share a name.
ToolDefs ==
  {ToolDef("t1", "n1", "f1"), ToolDef("t1", "n2", "f2"),
   ToolDef("t2", "n1", "f1"), ToolDef("t2", "n3", "f3")}
ToolIds == {"t1", "t2", "t0"}

\* What a tool function does with its input: it returns its own result,
\* throws an Error, throws a value that is no Error, or returns a promise that
\* rejects with an Error.
ToolInputs == {"ok", "throw Error", "throw string", "reject"}
Apply(fn, input) ==
  CASE input = "ok" -> [kind |-> "returns", value |-> <<fn, input>>]
    [] input = "throw Error" ->
         [kind |-> "throws", isError |-> TRUE, message |-> <<fn, "failed">>]
    [] input = "throw string" ->
         [kind |-> "throws", isError |-> FALSE, message |-> <<fn, "string">>]
    [] input = "reject" ->
         [kind |-> "rejects", isError |-> TRUE, message |-> <<fn, "rejected">>]

\* The LLM tool register builds around toolDef.
LLMTool(toolDef) == [name |-> toolDef.name, toolDef |-> toolDef]

\* ToolRegistryService.register
Register(toolDef) ==
  /\ Len(llmTools) < MaxRegistered
  /\ tools' = MapSet(tools, toolDef.id, toolDef)
  /\ llmTools' = Append(llmTools, LLMTool(toolDef))
  /\ last' = [op |-> "tools.register", toolDef |-> toolDef, step |-> "returned"]
  /\ UNCHANGED <<heap, agents, calls, sheap, sessions, clock, serviceVars, graphVars>>

\* getTool: this.tools.get(toolId) || null
getTool(m, toolId) == MapGet(m, toolId)

\* toolExists: this.tools.has(toolId)
toolExists(m, toolId) == MapHas(m, toolId)

\* getAllTools: Array.from(this.tools.values())
getAllTools(m) == MapValues(m)

\* getToolsAsLLMTools: [...this.llmTools]
getToolsAsLLMTools(arr) == [i \in 1..Len(arr) |-> arr[i]]

\* ToolRegistryService.unregister: toolDef is read after the delete.
Unregister(toolId) ==
  /\ LET existed == MapHas(tools, toolId)
         deleted == MapDelete(tools, toolId)
         toolDef == MapGet(deleted, toolId)
     IN /\ tools' = IF existed THEN deleted ELSE tools
        /\ llmTools' = IF existed /\ IsSome(toolDef)
                       THEN SelectSeq(llmTools, LAMBDA t : t.name # Val(toolDef).name)
                       ELSE llmTools
        /\ last' = [op |-> "tools.unregister", toolId |-> toolId, step |-> "returned",
                    result |-> existed]
  /\ UNCHANGED <<heap, agents, calls, sheap, sessions, clock, serviceVars, graphVars>>

\* execute with no try around the call: what the tool throws reaches the caller.
ExecuteNoCatch(toolId, input) ==
  /\ LET toolDef == getTool(tools, toolId)
     IN IF ~IsSome(toolDef)
        THEN last' = [op |-> "tools.execute", toolId |-> toolId, input |-> input,
                      step |-> "threw",
                      error |-> ToolExecutionError(toolId, "Tool not found")]
        ELSE LET out == Apply(Val(toolDef).fn, input)
             IN IF out.kind = "returns"
                THEN last' = [op |-> "tools.execute", toolId |-> toolId, input |-> input,
                              step |-> "returned", result |-> out.value]
                ELSE last' = [op |-> "tools.execute", toolId |-> toolId, input |-> input,
                              step |-> "threw", error |-> PlainError(out.message)]
  /\ UNCHANGED <<heap, agents, calls, sheap, sessions, tools, llmTools, clock, serviceVars, graphVars>>

\* ToolRegistryService.execute.  The registry is read before the await only,
\* so the call is one step.
Execute(toolId, input) ==
  /\ LET toolDef == getTool(tools, toolId)
     IN IF ~IsSome(toolDef)
        THEN last' = [op |-> "tools.execute", toolId |-> toolId, input |-> input,
                      step |-> "threw",
                      error |-> ToolExecutionError(toolId, "Tool not found")]
        ELSE LET out == Apply(Val(toolDef).fn, input)
             IN IF out.kind = "returns"
                THEN last' = [op |-> "tools.execute", toolId |-> toolId, input |-> input,
                              step |-> "returned", result |-> out.value]
                ELSE last' = [op |-> "tools.execute", toolId |-> toolId, input |-> input,
                              step |-> "threw",
                              error |-> ToolExecutionError(
                                          Val(toolDef).name,
                                          IF out.isError THEN out.message
                                          ELSE <<"String", out.message>>)]
  /\ UNCHANGED <<heap, agents, calls, sheap, sessions, tools, llmTools, clock, serviceVars, graphVars>>

NextTools ==
  \/ \E toolDef \in ToolDefs : Register(toolDef)
  \/ \E toolId \in ToolIds : Unregister(toolId)
  \/ \E toolId \in ToolIds, input \in ToolInputs : Execute(toolId, input)

SpecTools == Init /\ [][NextTools]_vars

\* The use cases over one repository, their calls interleaved at the awaits.
NextUseCases ==
  \/ \E config \in CreateInputs : ExecuteCall(config)
  \/ \E call \in BagToSet(calls) : ExecuteAfterFindByName(call)
  \/ \E call \in BagToSet(calls) : ExecuteAfterSave(call)
  \/ \E agentId \in KnownIds : GetAgentExecute(agentId)
  \/ \E agentId \in KnownIds : AgentDelete(agentId)

SpecUseCases == Init /\ [][NextUseCases]_vars

\* The two repositories, called directly with the objects of the pools.
NextRepositories ==
  \/ \E ref \in DOMAIN heap : AgentSave(ref)
  \/ \E ref \in DOMAIN heap : AgentUpdate(ref)
  \/ \E agentId \in KnownIds : AgentDelete(agentId)
  \/ \E agentId \in KnownIds : AgentFindById(agentId)
  \/ \E name \in {<<"a">>, <<"b">>, <<"c">>} : AgentFindByName(name)
  \/ \E cursor \in Cursors : AgentFindAll(cursor)
  \/ \E agentId \in KnownIds : AgentExists(agentId)
  \/ AgentCount
  \/ \E ref \in DOMAIN sheap : SessionSave(ref)
  \/ \E ref \in DOMAIN sheap : SessionUpdate(ref)
  \/ \E sessionId \in KnownSessionIds : SessionDelete(sessionId)
  \/ \E sessionId \in KnownSessionIds : SessionFindById(sessionId)
  \/ \E agentId \in OwnerInputs, cursor \in Cursors : SessionFindByAgentId(agentId, cursor)
  \/ \E status \in StatusInputs, cursor \in Cursors : SessionFindByStatus(status, cursor)
  \/ \E sessionId \in KnownSessionIds : SessionExists(sessionId)

SpecRepositories == InitWithPools /\ [][NextRepositories]_vars

------------------------------------------------------------------------
\* OpenAILLMService.  Temperatures are in tenths, so that the default of 0.7
\* is an integer.

OPENAI == "openai"
ANTHROPIC == "anthropic"

\* LLMModelConfig, as the service reads it.
LlmConfig(provider, modelName, temperature, maxTokens, topP) ==
  [provider |-> provider, modelName |-> modelName, temperature |-> temperature,
   maxTokens |-> maxTokens, topP |-> topP]

\* `${x}` and `${x ?? 'default'}` in a template literal, as characters; a
\* provider, a number and the words undefined and default are one token each.
Interpolate(o) == IF o = None THEN <<"undefined">> ELSE Val(o)
NumOrDefault(o) == IF o = None THEN <<"default">> ELSE <<ToString(Val(o))>>

\* generateCacheKey leaving maxTokens out of the key.
generateCacheKeyNoMaxTokens(config) ==
  Interpolate(IF config.provider = None THEN None ELSE Some(<<Val(config.provider)>>))
    \o <<":">> \o Interpolate(config.modelName)
    \o <<":">> \o NumOrDefault(config.temperature)

\* OpenAILLMService.generateCacheKey
generateCacheKey(config) ==
  Interpolate(IF config.provider = None THEN None ELSE Some(<<Val(config.provider)>>))
    \o <<":">> \o Interpolate(config.modelName)
    \o <<":">> \o NumOrDefault(config.temperature)
    \o <<":">> \o NumOrDefault(config.maxTokens)

\* OpenAILLMService.validateConfig: the message it throws, if it throws.
LlmValidateConfig(config) ==
  IF FalsyStr(config.modelName) THEN Some("Model name is required")
  ELSE IF config.provider # Some(OPENAI) THEN Some("Invalid provider")
  ELSE IF config.temperature # None
          /\ (Val(config.temperature) < 0 \/ Val(config.temperature) > 20)
    THEN Some("Temperature must be between 0 and 2")
  ELSE IF config.maxTokens # None /\ Val(config.maxTokens) <= 0
    THEN Some("maxTokens must be a positive number")
  ELSE IF config.topP # None /\ (Val(config.topP) < 0 \/ Val(config.topP) > 1)
    THEN Some("topP must be between 0 and 1")
  ELSE None

\* temperature ?? 0.7, in tenths
DefaultTemperature == 7

\* new ChatOpenAI({...})
NewChatOpenAI(config) ==
  [model |-> config.modelName,
   temperature |-> OrElse(config.temperature, DefaultTemperature),
   maxTokens |-> config.maxTokens, topP |-> config.topP]

\* OpenAILLMService.getLLM: it has no await, so a call is one step.
GetLLM(config) ==
  /\ LET cacheKey == generateCacheKey(config)
         thrown == LlmValidateConfig(config)
     IN IF MapHas(llmCache, cacheKey)
        THEN /\ last' = [op |-> "llm.getLLM", config |-> config, step |-> "returned",
                         cached |-> TRUE, result |-> Val(MapGet(llmCache, cacheKey))]
             /\ UNCHANGED <<llmCache, llms>>
        ELSE IF IsSome(thrown)
        THEN /\ last' = [op |-> "llm.getLLM", config |-> config, step |-> "threw",
                         error |-> PlainError(<<"Failed to initialize LLM", Val(thrown)>>)]
             /\ UNCHANGED <<llmCache, llms>>
        ELSE /\ Len(llms) < MaxLlms
             /\ llms' = Append(llms, NewChatOpenAI(config))
             /\ llmCache' = MapSet(llmCache, cacheKey, Len(llms) + 1)
             /\ last' = [op |-> "llm.getLLM", config |-> config, step |-> "returned",
                         cached |-> FALSE, result |-> Len(llms) + 1]
  /\ UNCHANGED <<heap, agents, calls, sheap, sessions, tools, llmTools, clock,
                 memory, graphVars>>

\* OpenAILLMService.clearCache
ClearCache ==
  /\ llmCache' = <<>>
  /\ last' = [op |-> "llm.clearCache", step |-> "returned", removed |-> Len(llmCache)]
  /\ UNCHANGED <<heap, agents, calls, sheap, sessions, tools, llmTools, clock,
                 llms, memory, graphVars>>

\* The configs a caller asks a client for: every (modelName, temperature,
\* maxTokens) over two values each, one of them with a topP as well, and one
\* config failing each test of validateConfig.
LlmModelNames == {<<"m">>, <<"m", ":", "7">>}
ValidLlmConfigs ==
  {LlmConfig(Some(OPENAI), Some(n), t, k, None) :
     n \in LlmModelNames, t \in {None, Some(7)}, k \in {None, Some(7)}}
    \cup {LlmConfig(Some(OPENAI), Some(<<"m">>), None, None, Some(1))}
InvalidLlmConfigs ==
  {LlmConfig(Some(OPENAI), None, None, None, None),
   LlmConfig(Some(ANTHROPIC), Some(<<"m">>), None, None, None),
   LlmConfig(Some(OPENAI), Some(<<"m">>), Some(21), None, None),
   LlmConfig(Some(OPENAI), Some(<<"m">>), None, Some(0), None),
   LlmConfig(Some(OPENAI), Some(<<"m">>), None, None, Some(2))}

NextLlm ==
  \/ \E config \in ValidLlmConfigs \cup InvalidLlmConfigs : GetLLM(config)
  \/ ClearCache

SpecLlm == Init /\ [][NextLlm]_vars

------------------------------------------------------------------------
\* DomainExceptionFilter.

SessionNotFoundError(sessionId) ==
  DomainError("SessionNotFoundError", <<"Session with ID not found", sessionId>>,
              "SESSION_NOT_FOUND", 404)

\* HttpStatus.BAD_REQUEST
BAD_REQUEST == 400

\* catch answering every error with HttpStatus.BAD_REQUEST.
FilterCatchAlwaysBadRequest(exception) ==
  /\ last' = [op |-> "filter.catch", exception |-> exception, status |-> BAD_REQUEST,
              body |-> [statusCode |-> BAD_REQUEST, error |-> exception.name,
                        message |-> exception.message, code |-> exception.code,
                        timestamp |-> clock]]
  /\ UNCHANGED <<heap, agents, calls, sheap, sessions, tools, llmTools, clock,
                 serviceVars, graphVars>>

\* DomainExceptionFilter.catch: response.status(status).json(body)
FilterCatch(exception) ==
  /\ LET status == OrDefault(Some(exception.statusCode), BAD_REQUEST)
     IN last' = [op |-> "filter.catch", exception |-> exception, status |-> status,
                 body |-> [statusCode |-> status, error |-> exception.name,
                           message |-> exception.message, code |-> exception.code,
                           timestamp |-> clock]]
  /\ UNCHANGED <<heap, agents, calls, sheap, sessions, tools, llmTools, clock,
                 serviceVars, graphVars>>

\* The domain errors the application can hand to the filter: each class,
\* constructed with the arguments its throw sites give it.
ThrownReasons ==
  {"Configuration must be an object", "Agent name is required",
   "Agent type is required", "LLM configuration is required",
   "LLM model name is required", "Agent name cannot be empty",
   "LLM configuration with model name is required",
   "Max iterations must be greater than 0", "Timeout must be greater than 0"}

\* The ids a client can ask for.
RequestedIds == {ToString(n) : n \in 0..(MaxCreated + MaxCalls)}

NextFilter ==
  \/ \E n \in RequestedIds : FilterCatch(AgentNotFoundError(<<"id", n>>))
  \/ \E n \in RequestedIds : FilterCatch(SessionNotFoundError(<<"sid", n>>))
  \/ \E reason \in ThrownReasons : FilterCatch(InvalidAgentConfigError(reason))
  \/ \E name \in {<<"a">>, <<"b">>} :
       FilterCatch(InvalidAgentConfigError(<<"Agent with name already exists", name>>))
  \/ \E toolId \in ToolIds : FilterCatch(ToolExecutionError(toolId, "Tool not found"))
  \/ \E toolDef \in ToolDefs, input \in ToolInputs \ {"ok"} :
       FilterCatch(ToolExecutionError(toolDef.name, Apply(toolDef.fn, input).message))
  \/ Tick

SpecFilter == Init /\ [][NextFilter]_vars

------------------------------------------------------------------------
\* The graphs.  A run is the graph state (AgentStateAnnotation), the node that
\* runs next, maxIterations of the graph object, and the nodes run so far.

\* { ...x, ...y }
ObjectSpread(x, y) ==
  [k \in DOMAIN x \cup DOMAIN y |-> IF k \in DOMAIN y THEN y[k] ELSE x[k]]

\* The reducers of AgentStateAnnotation applied to a node's partial update:
\* messages concatenates, toolResults and metadata merge, query takes the
\* update's value unless it is empty, the others take it when there is one.
Reduce(state, update) ==
  [k \in DOMAIN state |->
     IF k \notin DOMAIN update THEN state[k]
     ELSE IF k = "messages" THEN state[k] \o update[k]
     ELSE IF k \in {"toolResults", "metadata"} THEN ObjectSpread(state[k], update[k])
     ELSE IF k = "query" THEN (IF update[k] = <<>> THEN state[k] ELSE update[k])
     ELSE update[k]]

HumanMessage(content) == [type |-> "human", content |-> content]
AIMessage(content, tool_calls) ==
  [type |-> "ai", content |-> content, tool_calls |-> tool_calls]

\* messages[messages.length - 1]
LastMessage(state) == state.messages[Len(state.messages)]

\* lastMessage instanceof AIMessage && lastMessage.tool_calls &&
\* Array.isArray(lastMessage.tool_calls)
HasToolCallArray(message) == message.type = "ai" /\ IsSome(message.tool_calls)

\* shouldUseTool ending only once the count is past maxIterations.
shouldUseToolPastLimit(state, maxIterations) ==
  IF state.iterations > maxIterations THEN "end"
  ELSE IF HasToolCallArray(LastMessage(state))
          /\ Len(Val(LastMessage(state).tool_calls)) > 0
    THEN "tools"
  ELSE "end"

\* shouldUseTool sending every AI message with a tool call to tools.
shouldUseToolNoLimit(state, maxIterations) ==
  IF HasToolCallArray(LastMessage(state)) /\ Len(Val(LastMessage(state).tool_calls)) > 0
    THEN "tools"
  ELSE "end"

\* BasicAgentGraph.shouldUseTool
shouldUseTool(state, maxIterations) ==
  IF state.iterations >= maxIterations THEN "end"
  ELSE IF HasToolCallArray(LastMessage(state))
          /\ Len(Val(LastMessage(state).tool_calls)) > 0
    THEN "tools"
  ELSE "end"

\* The tools the graph was constructed with, and what invoke does with args.
BasicTools == {"search"}
ToolCall(name, id, args) == [name |-> name, id |-> id, args |-> args]

\* The body of toolsNode's loop for one tool call: the key and the value it
\* writes to toolResults.
ToolCallResult(toolCall) ==
  [key |-> OrElse(toolCall.id, toolCall.name),
   value |-> IF toolCall.name \notin BasicTools
               THEN [error |-> <<"Tool not found", toolCall.name>>]
             ELSE IF toolCall.args = "throw" THEN [error |-> "failed"]
             ELSE [result |-> toolCall.args]]

\* toolsNode's loop over tool_calls, from the i-th on.
RECURSIVE ToolResults(_, _, _)
ToolResults(toolCalls, i, acc) ==
  IF i > Len(toolCalls) THEN acc
  ELSE LET r == ToolCallResult(toolCalls[i])
       IN ToolResults(toolCalls, i + 1,
                      [k \in DOMAIN acc \cup {r.key} |->
                         IF k = r.key THEN r.value ELSE acc[k]])

\* The input of graph.invoke in run, after the reducers met the defaults.
BasicInput(query, systemPrompt) ==
  [messages |-> (IF FalsyStr(systemPrompt) THEN <<>>
                 ELSE <<HumanMessage(Val(systemPrompt))>>) \o <<HumanMessage(query)>>,
   query |-> query, iterations |-> 0, error |-> None, output |-> None,
   toolResults |-> <<>>, metadata |-> [startedAt |-> clock]]

\* new BasicAgentGraph(llm, tools, maxIterations).run(query, systemPrompt), up
\* to the first node: START leads to agent.
BasicRun(maxIterations, query, systemPrompt) ==
  /\ graph.node = "END"
  /\ graph' = [kind |-> "basic", maxIterations |-> maxIterations, node |-> "agent",
               state |-> BasicInput(query, systemPrompt), trace |-> <<>>]
  /\ last' = [op |-> "basic.run", maxIterations |-> maxIterations]
  /\ UNCHANGED <<heap, agents, calls, sheap, sessions, tools, llmTools, clock,
                 serviceVars, stream>>

\* agentNode, the reducers and the conditional edge after it; response is
\* what llm.invoke returns.
BasicAgentNode(response) ==
  /\ graph.kind = "basic"
  /\ graph.node = "agent"
  /\ LET update == [messages |-> <<response>>,
                    iterations |-> graph.state.iterations + 1,
                    metadata |-> ObjectSpread(graph.state.metadata,
                                              [lastNodeRun |-> "agent",
                                               timestamp |-> clock])]
         after == Reduce(graph.state, update)
         route == shouldUseTool(after, graph.maxIterations)
     IN /\ graph' = [graph EXCEPT !.state = after,
                                  !.node = IF route = "tools" THEN "tools" ELSE "END",
                                  !.trace = Append(@, "agent")]
        /\ last' = [op |-> "basic.agentNode", response |-> response, route |-> route]
  /\ UNCHANGED <<heap, agents, calls, sheap, sessions, tools, llmTools, clock,
                 serviceVars, stream>>

\* toolsNode, the reducers and the edge from tools to agent.
BasicToolsNode ==
  /\ graph.kind = "basic"
  /\ graph.node = "tools"
  /\ LET lastMessage == LastMessage(graph.state)
         update ==
           IF lastMessage.type # "ai" THEN <<>>
           ELSE [toolResults |->
                   IF IsSome(lastMessage.tool_calls)
                     THEN ToolResults(Val(lastMessage.tool_calls), 1, <<>>)
                   ELSE <<>>,
                 metadata |->
                   ObjectSpread(graph.state.metadata,
                                [lastNodeRun |-> "tools",
                                 toolCalls |-> IF IsSome(lastMessage.tool_calls)
                                                 THEN Len(Val(lastMessage.tool_calls))
                                               ELSE 0])]
     IN /\ graph' = [graph EXCEPT !.state = Reduce(@, update), !.node = "agent",
                                  !.trace = Append(@, "tools")]
        /\ last' = [op |-> "basic.toolsNode", update |-> update]
  /\ UNCHANGED <<heap, agents, calls, sheap, sessions, tools, llmTools, clock,
                 serviceVars, stream>>

\* What the LLM may answer: an AI message with one or two tool calls (a known
\* tool, an unknown one, a call with no id, a tool that throws), an AI message
\* with an empty tool_calls or none, and a message that is no AI message.
LlmResponses ==
  {AIMessage(<<"call">>, Some(<<ToolCall("search", Some("c1"), "ok")>>)),
   AIMessage(<<"call">>, Some(<<ToolCall("search", None, "throw"),
                           ToolCall("lookup", Some("c2"), "ok")>>)),
   AIMessage(<<"done">>, Some(<<>>)),
   AIMessage(<<"done">>, None),
   HumanMessage(<<"echo">>)}

\* The maxIterations a graph is constructed with.
IterationLimits == 0..MaxIterations

NextBasicGraph ==
  \/ \E maxIterations \in IterationLimits,
        systemPrompt \in {None, Some(<<>>), Some(<<"sys">>)} :
       BasicRun(maxIterations, <<"q">>, systemPrompt)
  \/ \E response \in LlmResponses : BasicAgentNode(response)
  \/ BasicToolsNode

SpecBasicGraph == Init /\ [][NextBasicGraph]_vars

\* Each LLM call and each tool call returns, and the runtime then runs the
\* next node.
SpecBasicGraphFair ==
  /\ SpecBasicGraph
  /\ WF_vars(\E response \in LlmResponses : BasicAgentNode(response))
  /\ WF_vars(BasicToolsNode)

------------------------------------------------------------------------
\* MultiAgentGraph.

\* String.prototype.toLowerCase and String.prototype.includes, on strings as
\* sequences of characters.
Lower(ch) == CASE ch = "R" -> "r" [] ch = "W" -> "w" [] OTHER -> ch
ToLowerCase(s) == [i \in DOMAIN s |-> Lower(s[i])]
Includes(s, t) ==
  \E i \in 0..(Len(s) - Len(t)) : SubSeq(s, i + 1, i + Len(t)) = t

\* JSON.stringify of a message content that is no string: '""' for a missing
\* one, and for an array of blocks a text that holds the blocks' text.
JsonStringify(content) ==
  IF content = None THEN <<"\"", "\"">>
  ELSE <<"[">> \o Val(content).text \o <<"]">>

\* The content routeWork reads from the last message, if there is one.
RouteContent(state) ==
  LET contentValue ==
        IF state.messages = <<>> THEN None
        ELSE Some(LastMessage(state).content)
  IN ToLowerCase(IF contentValue # None /\ Val(contentValue).kind = "string"
                   THEN Val(contentValue).text
                 ELSE JsonStringify(contentValue))

\* The first worker, in the Map's order, whose name the content includes.
RECURSIVE FirstWorkerIn(_, _, _)
FirstWorkerIn(workers, content, i) ==
  IF i > Len(workers) THEN None
  ELSE IF Includes(content, ToLowerCase(workers[i])) THEN Some(workers[i])
  ELSE FirstWorkerIn(workers, content, i + 1)

EndRoute == <<"e", "n", "d">>

\* MultiAgentGraph.routeWork
routeWork(state, workers, maxIterations) ==
  IF state.iterations >= maxIterations THEN EndRoute
  ELSE OrElse(FirstWorkerIn(workers, RouteContent(state), 1), EndRoute)

\* new MultiAgentGraph(supervisorLLM, maxIterations): buildGraph runs in the
\* constructor, over the workers registered by then, which are none.
MultiConstruct(maxIterations) ==
  /\ graph.node # "supervisor"
  /\ LET workers == <<>>
     IN graph' = [kind |-> "multi", maxIterations |-> maxIterations,
                  workers |-> workers,
                  nodes |-> {<<"supervisor">>} \cup {workers[i] : i \in DOMAIN workers},
                  routeOptions |-> {EndRoute} \cup {workers[i] : i \in DOMAIN workers},
                  node |-> "END", state |-> <<>>, trace |-> <<>>]
  /\ last' = [op |-> "multi.new", maxIterations |-> maxIterations]
  /\ UNCHANGED <<heap, agents, calls, sheap, sessions, tools, llmTools, clock,
                 serviceVars, stream>>

\* MultiAgentGraph.registerWorker: this.workers.set(name, agent)
RegisterWorker(name) ==
  /\ graph.kind = "multi"
  /\ graph' = [graph EXCEPT !.workers = IF \E i \in DOMAIN @ : @[i] = name THEN @
                                        ELSE Append(@, name)]
  /\ last' = [op |-> "multi.registerWorker", name |-> name]
  /\ UNCHANGED <<heap, agents, calls, sheap, sessions, tools, llmTools, clock,
                 serviceVars, stream>>

\* MultiAgentGraph.run, up to the first node: START leads to supervisor.
MultiRun(query) ==
  /\ graph.kind = "multi"
  /\ graph.node # "supervisor"
  /\ graph' = [graph EXCEPT
                 !.node = "supervisor",
                 !.trace = <<>>,
                 !.state = [messages |-> <<>>, query |-> query, iterations |-> 0,
                            error |-> None, output |-> None, toolResults |-> <<>>,
                            metadata |-> [startedAt |-> clock,
                                          agentType |-> "multi-agent",
                                          workers |-> graph.workers]]]
  /\ last' = [op |-> "multi.run", query |-> query]
  /\ UNCHANGED <<heap, agents, calls, sheap, sessions, tools, llmTools, clock,
                 serviceVars, stream>>

\* supervisorNode, the reducers and the conditional edge after it.  response
\* is what supervisorLLM.invoke gives: a message, or None when it throws.  A
\* route that is no key of the conditional-edge map has no destination: the
\* runtime fails the run.
MultiSupervisorNode(response) ==
  /\ graph.kind = "multi"
  /\ graph.node = "supervisor"
  /\ LET update ==
           IF IsSome(response)
             THEN [messages |-> <<Val(response)>>,
                   metadata |-> ObjectSpread(graph.state.metadata,
                                             [lastNodeRun |-> "supervisor",
                                              supervisorDecision |-> Val(response).content])]
           ELSE [error |-> Some("Supervisor decision failed"),
                 metadata |-> ObjectSpread(graph.state.metadata,
                                           [supervisorError |-> TRUE])]
         after == Reduce(graph.state, update)
         route == routeWork(after, graph.workers, graph.maxIterations)
         target == IF route \notin graph.routeOptions THEN "ERROR"
                   ELSE IF route = EndRoute THEN "END"
                   ELSE "worker"
     IN /\ graph' = [graph EXCEPT !.state = after, !.node = target,
                                  !.trace = Append(@, "supervisor")]
        /\ last' = [op |-> "multi.supervisorNode", response |-> response,
                    route |-> route, target |-> target]
  /\ UNCHANGED <<heap, agents, calls, sheap, sessions, tools, llmTools, clock,
                 serviceVars, stream>>

\* The names workers are registered under, and what the supervisor LLM may
\* answer: a text naming one worker, naming two, naming none, an array of
\* content blocks, or nothing because the call threw.
WorkerNames == {<<"r">>, <<"W">>}
TextContent(text) == [kind |-> "string", text |-> text]
SupervisorResponses ==
  {Some(AIMessage(TextContent(text), None)) :
     text \in {<<"r">>, <<"g", "o", " ", "w", "R">>, <<"e", "n", "d">>, <<>>}}
    \cup {Some(AIMessage([kind |-> "blocks", text |-> <<"W">>], None)), None}

NextMultiGraph ==
  \/ \E maxIterations \in IterationLimits : MultiConstruct(maxIterations)
  \/ \E name \in WorkerNames : RegisterWorker(name)
  \/ MultiRun(<<"q">>)
  \/ \E response \in SupervisorResponses : MultiSupervisorNode(response)

SpecMultiGraph == Init /\ [][NextMultiGraph]_vars

\* The supervisor's LLM call returns or throws, and the runtime goes on.
SpecMultiGraphFair ==
  /\ SpecMultiGraph
  /\ WF_vars(\E response \in SupervisorResponses : MultiSupervisorNode(response))

------------------------------------------------------------------------
\* InMemoryMemoryService.  The Map holds each session's array as a value: no
\* caller hands one array to two sessions.

\* arr.slice(start) for any integer start: a negative start counts from the
\* end, and -0 is 0.
SliceFrom(arr, start) ==
  LET from == IF start < 0 THEN (IF Len(arr) + start > 0 THEN Len(arr) + start ELSE 0)
              ELSE Min(start, Len(arr))
  IN SubSeq(arr, from + 1, Len(arr))

\* this.memory.get(sessionId) ?? []
MemoryOf(m, sessionId) == OrElse(MapGet(m, sessionId), <<>>)

\* InMemoryMemoryService.saveMessages
SaveMessages(sessionId, messages) ==
  /\ memory' = MapSet(memory, sessionId, messages)
  /\ last' = [op |-> "memory.saveMessages", sessionId |-> sessionId, step |-> "returned"]
  /\ UNCHANGED <<heap, agents, calls, sheap, sessions, tools, llmTools, clock,
                 llmCache, llms, graphVars>>

\* InMemoryMemoryService.addMessage
AddMessage(sessionId, message) ==
  /\ Len(MemoryOf(memory, sessionId)) < MaxMessages
  /\ memory' = MapSet(memory, sessionId, Append(MemoryOf(memory, sessionId), message))
  /\ last' = [op |-> "memory.addMessage", sessionId |-> sessionId, step |-> "returned"]
  /\ UNCHANGED <<heap, agents, calls, sheap, sessions, tools, llmTools, clock,
                 llmCache, llms, graphVars>>

\* InMemoryMemoryService.clearMemory
ClearMemory(sessionId) ==
  /\ memory' = MapDelete(memory, sessionId)
  /\ last' = [op |-> "memory.clearMemory", sessionId |-> sessionId, step |-> "returned"]
  /\ UNCHANGED <<heap, agents, calls, sheap, sessions, tools, llmTools, clock,
                 llmCache, llms, graphVars>>

\* InMemoryMemoryService.trimMemory
TrimMemory(sessionId, maxMessages) ==
  /\ LET messages == MemoryOf(memory, sessionId)
     IN memory' = IF Len(messages) > maxMessages
                    THEN MapSet(memory, sessionId, SliceFrom(messages, -maxMessages))
                  ELSE memory
  /\ last' = [op |-> "memory.trimMemory", sessionId |-> sessionId,
              maxMessages |-> maxMessages, step |-> "returned"]
  /\ UNCHANGED <<heap, agents, calls, sheap, sessions, tools, llmTools, clock,
                 llmCache, llms, graphVars>>

\* The queries: getMemory, getMemorySize, hasMemory.
GetMemory(sessionId) ==
  /\ last' = [op |-> "memory.getMemory", sessionId |-> sessionId,
              result |-> MemoryOf(memory, sessionId)]
  /\ UNCHANGED <<heap, agents, calls, sheap, sessions, tools, llmTools, clock,
                 serviceVars, graphVars>>

GetMemorySize(sessionId) ==
  /\ last' = [op |-> "memory.getMemorySize", sessionId |-> sessionId,
              result |-> Len(MemoryOf(memory, sessionId))]
  /\ UNCHANGED <<heap, agents, calls, sheap, sessions, tools, llmTools, clock,
                 serviceVars, graphVars>>

HasMemory(sessionId) ==
  /\ last' = [op |-> "memory.hasMemory", sessionId |-> sessionId,
              result |-> MapHas(memory, sessionId)]
  /\ UNCHANGED <<heap, agents, calls, sheap, sessions, tools, llmTools, clock,
                 serviceVars, graphVars>>

\* The sessions, the messages and the arrays of messages a caller passes.
MemorySessions == {"s1", "s2"}
MemoryMessages == {"a", "b"}
RECURSIVE ArraysUpTo(_)
ArraysUpTo(n) ==
  IF n = 0 THEN {<<>>}
  ELSE ArraysUpTo(n - 1)
         \cup {Append(arr, m) : arr \in {a \in ArraysUpTo(n - 1) : Len(a) = n - 1},
                                m \in MemoryMessages}

NextMemory ==
  \/ \E sessionId \in MemorySessions, messages \in ArraysUpTo(MaxMessages) :
       SaveMessages(sessionId, messages)
  \/ \E sessionId \in MemorySessions, message \in MemoryMessages :
       AddMessage(sessionId, message)
  \/ \E sessionId \in MemorySessions : ClearMemory(sessionId)
  \/ \E sessionId \in MemorySessions, maxMessages \in 0..MaxMessages :
       TrimMemory(sessionId, maxMessages)
  \/ \E sessionId \in MemorySessions : GetMemory(sessionId)
  \/ \E sessionId \in MemorySessions : GetMemorySize(sessionId)
  \/ \E sessionId \in MemorySessions : HasMemory(sessionId)

SpecMemory == Init /\ [][NextMemory]_vars

------------------------------------------------------------------------
\* HITLAgentGraph.

\* state.metadata?.key, undefined when the key is absent
MetadataGet(state, key) ==
  IF key \in DOMAIN state.metadata THEN Some(state.metadata[key]) ELSE None

\* x || d for a string x that may be undefined
StrOrDefault(o, d) == IF FalsyStr(o) THEN d ELSE Val(o)

\* processApproval taking a pending approval for an approval.
processApprovalPendingApproves(state) ==
  LET approval == MetadataGet(state, "humanApproval")
  IN IF approval = Some("rejected") THEN "rejected"
     ELSE IF approval = Some("needs_revision") THEN "needs_revision"
     ELSE "approved"

\* HITLAgentGraph.processApproval
processApproval(state) ==
  LET approval == MetadataGet(state, "humanApproval")
  IN IF approval = Some("approved") THEN "approved"
     ELSE IF approval = Some("rejected") THEN "rejected"
     ELSE IF approval = Some("needs_revision") THEN "needs_revision"
     ELSE "needs_revision"

\* HITLAgentGraph.processHumanFeedback
processHumanFeedback(state, feedback, notes) ==
  [state EXCEPT !.metadata = ObjectSpread(@, [humanApproval |-> feedback,
                                              humanFeedbackNotes |-> notes,
                                              feedbackReceivedAt |-> clock])]

\* planNode's update; response is what llm.invoke gives, None when it throws.
PlanUpdate(state, response) ==
  IF IsSome(response)
    THEN [messages |-> <<Val(response)>>,
          metadata |-> ObjectSpread(state.metadata,
                                    [lastNodeRun |-> "plan", planGenerated |-> TRUE,
                                     plan |-> Val(response).content])]
  ELSE [error |-> Some("Plan generation failed"),
        metadata |-> ObjectSpread(state.metadata, [planError |-> TRUE])]

\* humanReviewNode's update
HumanReviewUpdate(state) ==
  [metadata |->
     ObjectSpread(state.metadata,
                  [lastNodeRun |-> "human_review", requiresApproval |-> TRUE,
                   pendingPlan |-> StrOrDefault(MetadataGet(state, "plan"),
                                                <<"No plan generated">>),
                   humanApproval |-> "pending"])]

\* executeNode's update
ExecuteUpdate(state, response) ==
  IF IsSome(response)
    THEN [messages |-> <<Val(response)>>,
          output |-> Some(Val(response).content),
          metadata |-> ObjectSpread(state.metadata,
                                    [lastNodeRun |-> "execute",
                                     executionStatus |-> "completed",
                                     executionResult |-> Val(response).content])]
  ELSE [error |-> Some("Execution failed"),
        metadata |-> ObjectSpread(state.metadata,
                                  [executionStatus |-> "failed",
                                   executionError |-> TRUE])]

\* The edges of buildGraph: the node that runs after node, given the state
\* node left.
HitlEdge(node, state) ==
  CASE node = "plan" -> "human_review"
    [] node = "human_review" ->
         (CASE processApproval(state) = "approved" -> "execute"
            [] processApproval(state) = "rejected" -> "END"
            [] processApproval(state) = "needs_revision" -> "plan")
    [] node = "execute" -> "END"

\* The input of graph.invoke in run.
HitlInput(query) ==
  [messages |-> <<>>, query |-> query, iterations |-> 0, error |-> None,
   output |-> None, toolResults |-> <<>>,
   metadata |-> [startedAt |-> clock, agentType |-> "hitl"]]

\* new HITLAgentGraph(llm, maxIterations), then run(query), or the runnable
\* invoked with the state processHumanFeedback returns; up to the entry
\* point, which is plan.
HitlRun(maxIterations, query, feedback) ==
  /\ graph.node = "END"
  /\ graph' = [kind |-> "hitl", maxIterations |-> maxIterations, node |-> "plan",
               state |-> IF feedback = None THEN HitlInput(query)
                         ELSE processHumanFeedback(HitlInput(query), Val(feedback), None),
               trace |-> <<>>]
  /\ last' = [op |-> "hitl.run", maxIterations |-> maxIterations, feedback |-> feedback]
  /\ UNCHANGED <<heap, agents, calls, sheap, sessions, tools, llmTools, clock,
                 serviceVars, stream>>

\* The node that is next runs, the reducers take its update and the edges
\* choose the node after it.  A run has at most MaxSteps steps.
HitlNode(response) ==
  /\ graph.kind = "hitl"
  /\ graph.node # "END"
  /\ Len(graph.trace) < MaxSteps
  /\ LET update == CASE graph.node = "plan" -> PlanUpdate(graph.state, response)
                     [] graph.node = "human_review" -> HumanReviewUpdate(graph.state)
                     [] graph.node = "execute" -> ExecuteUpdate(graph.state, response)
         after == Reduce(graph.state, update)
     IN /\ graph' = [graph EXCEPT !.state = after,
                                  !.node = HitlEdge(graph.node, after),
                                  !.trace = Append(@, graph.node)]
        /\ last' = [op |-> "hitl.node", node |-> graph.node, response |-> response]
  /\ UNCHANGED <<heap, agents, calls, sheap, sessions, tools, llmTools, clock,
                 serviceVars, stream>>

\* What the LLM may answer to the plan prompt: a plan, an empty text, or
\* nothing because the call threw.
PlanResponses ==
  {Some(AIMessage(<<"plan">>, None)), Some(AIMessage(<<>>, None)), None}

Feedbacks == {"approved", "rejected", "needs_revision"}

NextHitlGraph ==
  \/ \E maxIterations \in IterationLimits,
        feedback \in {None} \cup {Some(f) : f \in Feedbacks} :
       HitlRun(maxIterations, <<"q">>, feedback)
  \/ \E response \in PlanResponses : HitlNode(response)

SpecHitlGraph == Init /\ [][NextHitlGraph]_vars

------------------------------------------------------------------------
\* streamGraphEvents, driven to its end as createSSEStream's loop does.

\* A value the graph stream delivers: null, or an object whose own keys are
\* the node ids, in the order Object.keys gives them.
SourceEvent(isNull, entries) == [isNull |-> isNull, entries |-> entries]

\* Object.keys leaving all keys but the first out.
ObjectKeysFirstOnly(event) ==
  IF event.isNull \/ event.entries = <<>> THEN <<>>
  ELSE <<event.entries[1].key>>

\* Object.keys(eventRecord ?? {})
ObjectKeys(event) ==
  IF event.isNull THEN <<>>
  ELSE [i \in 1..Len(event.entries) |-> event.entries[i].key]

\* eventRecord?.[nodeId]
NodeData(event, nodeId) ==
  IF event.isNull THEN None
  ELSE LET i == CHOOSE i \in 1..Len(event.entries) : event.entries[i].key = nodeId
       IN Some(event.entries[i].data)

\* error instanceof Error ? error.message : String(error)
ErrorText(thrown) == IF thrown.isError THEN thrown.message ELSE thrown.text

\* streamGraphEvents(graphStream): the generator object; its body has not
\* started.
StreamGraphEvents ==
  /\ stream.pc \in {"none", "done"}
  /\ stream' = [pc |-> "created", eventCount |-> 0, event |-> SourceEvent(TRUE, <<>>),
                keys |-> <<>>, consumed |-> <<>>, outcome |-> "open", out |-> <<>>]
  /\ last' = [op |-> "stream.call"]
  /\ UNCHANGED <<heap, agents, calls, sheap, sessions, tools, llmTools, clock,
                 serviceVars, graph>>

\* The first next(): the 'start' event is yielded, eventCount is 0.
StreamYieldStart ==
  /\ stream.pc = "created"
  /\ stream' = [stream EXCEPT !.pc = "loop",
                              !.out = Append(@, [type |-> "start", timestamp |-> clock,
                                                 data |-> Some("Stream started")])]
  /\ last' = [op |-> "stream.yield", type |-> "start"]
  /\ UNCHANGED <<heap, agents, calls, sheap, sessions, tools, llmTools, clock,
                 serviceVars, graph>>

\* for await: the source delivers an event, which is counted and whose keys
\* are taken.
StreamSourceEvent(event) ==
  /\ stream.pc = "loop"
  /\ stream.keys = <<>>
  /\ Len(stream.consumed) < MaxSourceEvents
  /\ stream' = [stream EXCEPT !.eventCount = @ + 1,
                              !.event = event,
                              !.keys = ObjectKeys(event),
                              !.consumed = Append(@, event)]
  /\ last' = [op |-> "stream.source", event |-> event]
  /\ UNCHANGED <<heap, agents, calls, sheap, sessions, tools, llmTools, clock,
                 serviceVars, graph>>

\* for (const nodeId of keys): one 'node_update' is yielded.
StreamYieldNodeUpdate ==
  /\ stream.pc = "loop"
  /\ stream.keys # <<>>
  /\ stream' = [stream EXCEPT !.keys = Tail(@),
                              !.out = Append(@, [type |-> "node_update",
                                                 timestamp |-> clock,
                                                 nodeId |-> Head(stream.keys),
                                                 data |-> NodeData(stream.event,
                                                                   Head(stream.keys))])]
  /\ last' = [op |-> "stream.yield", type |-> "node_update"]
  /\ UNCHANGED <<heap, agents, calls, sheap, sessions, tools, llmTools, clock,
                 serviceVars, graph>>

\* The source is done: the loop is left and 'end' is yielded.
StreamSourceCompletes ==
  /\ stream.pc = "loop"
  /\ stream.keys = <<>>
  /\ stream' = [stream EXCEPT !.pc = "terminal",
                              !.outcome = "completed",
                              !.out = Append(@, [type |-> "end", timestamp |-> clock,
                                                 data |-> Some(stream.eventCount)])]
  /\ last' = [op |-> "stream.yield", type |-> "end"]
  /\ UNCHANGED <<heap, agents, calls, sheap, sessions, tools, llmTools, clock,
                 serviceVars, graph>>

\* The source throws: the catch block yields 'error'.
StreamSourceThrows(thrown) ==
  /\ stream.pc = "loop"
  /\ stream.keys = <<>>
  /\ stream' = [stream EXCEPT !.pc = "terminal",
                              !.outcome = "threw",
                              !.out = Append(@, [type |-> "error", timestamp |-> clock,
                                                 error |-> ErrorText(thrown)])]
  /\ last' = [op |-> "stream.yield", type |-> "error"]
  /\ UNCHANGED <<heap, agents, calls, sheap, sessions, tools, llmTools, clock,
                 serviceVars, graph>>

\* The next() after the last yield: the generator returns.
StreamReturn ==
  /\ stream.pc = "terminal"
  /\ stream' = [stream EXCEPT !.pc = "done"]
  /\ last' = [op |-> "stream.return"]
  /\ UNCHANGED <<heap, agents, calls, sheap, sessions, tools, llmTools, clock,
                 serviceVars, graph>>

\* What a graph stream delivers.
SourceEvents ==
  {SourceEvent(TRUE, <<>>),
   SourceEvent(FALSE, <<>>),
   SourceEvent(FALSE, <<[key |-> "agent", data |-> 1]>>),
   SourceEvent(FALSE, <<[key |-> "agent", data |-> 1], [key |-> "tools", data |-> 2]>>)}

\* What a graph stream throws: an Error, or a value that is none.
SourceThrows ==
  {[isError |-> TRUE, message |-> "boom", text |-> "Error: boom"],
   [isError |-> FALSE, message |-> "", text |-> "stopped"]}

\* The source's part in a step of the generator.
StreamSource ==
  \/ \E event \in SourceEvents : StreamSourceEvent(event)
  \/ StreamSourceCompletes
  \/ \E thrown \in SourceThrows : StreamSourceThrows(thrown)

NextStream ==
  \/ StreamGraphEvents
  \/ StreamYieldStart
  \/ \E event \in SourceEvents : StreamSourceEvent(event)
  \/ StreamYieldNodeUpdate
  \/ StreamSourceCompletes
  \/ \E thrown \in SourceThrows : StreamSourceThrows(thrown)
  \/ StreamReturn

SpecStream == Init /\ [][NextStream]_vars

\* The consumer keeps asking for the next event and the source, being
\* finite, answers each time.
SpecStreamFair ==
  /\ SpecStream
  /\ WF_vars(StreamYieldStart)
  /\ WF_vars(StreamSource)
  /\ WF_vars(StreamYieldNodeUpdate)
  /\ WF_vars(StreamReturn)

------------------------------------------------------------------------
\* RAGAgentGraph.

\* rewriteCount < 2
MaxRewrites == 2

\* The elements of an array.
Range(arr) == {arr[i] : i \in 1..Len(arr)}

\* s.split(' ')
RECURSIVE Split(_)
Split(s) ==
  IF \A i \in 1..Len(s) : s[i] # " " THEN <<s>>
  ELSE LET i == CHOOSE i \in 1..Len(s) :
                  s[i] = " " /\ \A j \in 1..(i - 1) : s[j] # " "
       IN <<SubSeq(s, 1, i - 1)>> \o Split(SubSeq(s, i + 1, Len(s)))

\* arr.filter(pred), pred given as the set of the elements that pass
RECURSIVE Filter(_, _)
Filter(arr, passing) ==
  IF arr = <<>> THEN <<>>
  ELSE (IF Head(arr) \in passing THEN <<Head(arr)>> ELSE <<>>)
         \o Filter(Tail(arr), passing)

\* (state.metadata?.key as number) ?? 0
MetadataNumber(state, key) ==
  IF key \in DOMAIN state.metadata THEN state.metadata[key] ELSE 0

\* (state.toolResults?.key as unknown[]) ?? []
ToolResultsArray(state, key) ==
  IF key \in DOMAIN state.toolResults THEN state.toolResults[key] ELSE <<>>

\* retrieveNode's update; result is what getRelevantDocuments gives, None
\* when it throws.
RetrieveUpdate(state, hasRetriever, result) ==
  IF ~hasRetriever
    THEN [metadata |-> ObjectSpread(state.metadata,
                                    [retrieverStatus |-> "not_configured"])]
  ELSE IF IsSome(result)
    THEN [toolResults |->
            [retrieved_docs |->
               [i \in 1..Len(Val(result)) |-> [content |-> Val(result)[i].pageContent]]],
          metadata |-> ObjectSpread(state.metadata,
                                    [retrievalMethod |-> "vector_search",
                                     docsRetrieved |-> Len(Val(result))])]
  ELSE [error |-> Some("Retrieval failed"),
        metadata |-> ObjectSpread(state.metadata, [retrievalError |-> TRUE])]

\* gradeDocumentsNode's update
GradeUpdate(state) ==
  LET docs == ToolResultsArray(state, "retrieved_docs")
      queryTerms == Split(ToLowerCase(state.query))
      relevant == {doc \in Range(docs) :
                     \E t \in 1..Len(queryTerms) :
                        Includes(ToLowerCase(doc.content), queryTerms[t])}
      gradedDocs == Filter(docs, relevant)
  IN IF Len(docs) = 0
       THEN [metadata |-> ObjectSpread(state.metadata,
                                       [documentGrading |-> "no_documents"])]
     ELSE [toolResults |-> ObjectSpread(state.toolResults,
                                        [graded_docs |-> gradedDocs]),
           metadata |-> ObjectSpread(state.metadata,
                                     [relevantDocsCount |-> Len(gradedDocs),
                                      documentGradePass |-> Len(gradedDocs) > 0])]

\* RAGAgentGraph.shouldRewriteQuery
shouldRewriteQuery(state) ==
  IF MetadataNumber(state, "relevantDocsCount") = 0
     /\ MetadataNumber(state, "queryRewriteCount") < MaxRewrites
    THEN "rewrite"
  ELSE "generate"

\* rewriteQueryNode's update; response is what llm.invoke gives, None when
\* it throws.
RewriteUpdate(state, response) ==
  IF IsSome(response)
    THEN [query |-> Val(response).content,
          metadata |-> ObjectSpread(state.metadata,
                                    [lastNodeRun |-> "rewrite_query",
                                     queryRewriteCount |->
                                       MetadataNumber(state, "queryRewriteCount") + 1])]
  ELSE [error |-> Some("Query rewrite failed"),
        metadata |-> ObjectSpread(state.metadata, [rewriteError |-> TRUE])]

\* generateNode's update
GenerateUpdate(state, response) ==
  IF IsSome(response)
    THEN [messages |-> <<Val(response)>>,
          output |-> Some(Val(response).content),
          metadata |-> ObjectSpread(state.metadata,
                                    [lastNodeRun |-> "generate",
                                     generationStatus |-> "success"])]
  ELSE [error |-> Some("Generation failed"),
        metadata |-> ObjectSpread(state.metadata, [generationError |-> TRUE])]

\* The input of graph.invoke in run.
RagInput(query) ==
  [messages |-> <<>>, query |-> query, iterations |-> 0, error |-> None,
   output |-> None, toolResults |-> <<>>,
   metadata |-> [startedAt |-> clock, agentType |-> "rag"]]

\* new RAGAgentGraph(llm, retriever).run(query), up to the first node: START
\* leads to retrieve.
RagRun(hasRetriever, query) ==
  /\ graph.node = "END"
  /\ graph' = [kind |-> "rag", hasRetriever |-> hasRetriever, node |-> "retrieve",
               state |-> RagInput(query), trace |-> <<>>]
  /\ last' = [op |-> "rag.run", hasRetriever |-> hasRetriever, query |-> query]
  /\ UNCHANGED <<heap, agents, calls, sheap, sessions, tools, llmTools, clock,
                 serviceVars, stream>>

\* One node of the graph has run: the reducers take its update and next is
\* the node its edge leads to.  A run is followed for MaxRagSteps steps.
RagStep(node, update, next) ==
  /\ graph.kind = "rag"
  /\ graph.node = node
  /\ Len(graph.trace) < MaxRagSteps
  /\ graph' = [graph EXCEPT !.state = Reduce(graph.state, update),
                            !.node = next,
                            !.trace = Append(@, node)]
  /\ UNCHANGED <<heap, agents, calls, sheap, sessions, tools, llmTools, clock,
                 serviceVars, stream>>

RagRetrieveNode(result) ==
  /\ graph.kind = "rag"
  /\ RagStep("retrieve", RetrieveUpdate(graph.state, graph.hasRetriever, result),
             "grade_documents")
  /\ last' = [op |-> "rag.node", node |-> "retrieve"]

RagGradeDocumentsNode ==
  /\ graph.kind = "rag"
  /\ LET after == Reduce(graph.state, GradeUpdate(graph.state))
     IN RagStep("grade_documents", GradeUpdate(graph.state),
                IF shouldRewriteQuery(after) = "rewrite" THEN "rewrite_query"
                ELSE "generate")
  /\ last' = [op |-> "rag.node", node |-> "grade_documents"]

RagRewriteQueryNode(response) ==
  /\ graph.kind = "rag"
  /\ RagStep("rewrite_query", RewriteUpdate(graph.state, response), "retrieve")
  /\ last' = [op |-> "rag.node", node |-> "rewrite_query"]

RagGenerateNode(response) ==
  /\ graph.kind = "rag"
  /\ RagStep("generate", GenerateUpdate(graph.state, response), "END")
  /\ last' = [op |-> "rag.node", node |-> "generate"]

\* What getRelevantDocuments may give: no document, one that matches no
\* query, one that matches the rewritten query only, or nothing because it
\* threw.
Retrievals ==
  {Some(<<>>), Some(<<[pageContent |-> <<"x">>]>>),
   Some(<<[pageContent |-> <<"R">>]>>), None}

\* What the LLM may answer: a text, an empty text, or nothing because the
\* call threw.
RagResponses ==
  {Some(AIMessage(<<"r">>, None)), Some(AIMessage(<<>>, None)), None}

RagQueries == {<<"q">>, <<"q", " ", "w">>}

NextRagGraph ==
  \/ \E hasRetriever \in BOOLEAN, query \in RagQueries : RagRun(hasRetriever, query)
  \/ \E result \in Retrievals : RagRetrieveNode(result)
  \/ RagGradeDocumentsNode
  \/ \E response \in RagResponses : RagRewriteQueryNode(response)
  \/ \E response \in RagResponses : RagGenerateNode(response)

SpecRagGraph == Init /\ [][NextRagGraph]_vars


\* What the repository holds, as sets.
Entries(m) == {m[i] : i \in DOMAIN m}
StoredIds(m) == {e.key : e \in Entries(m)}
StoredNames(m, h) == {h[e.ref].config.name : e \in Entries(m)}

\* C1: execute called with a config that passes validation and whose name is
\* the name of a stored agent finds that agent, and when it resumes it throws
\* InvalidAgentConfigError ("already exists") without constructing or saving
\* an agent: the repository and the heap are left as they were.
C1_DuplicateNameRejected ==
  [][ /\ ( /\ last'.op = "create"
           /\ last'.step = "called"
           /\ last'.config.name \in StoredNames(agents, heap) )
         => ( /\ IsSome(last'.call.existing)
              /\ agents' = agents
              /\ heap' = heap )
      /\ ( /\ last'.op = "create"
           /\ last'.step \in {"threw", "saved"}
           /\ IsSome(last'.call.existing) )
         => ( /\ last'.step = "threw"
              /\ last'.error.name = "InvalidAgentConfigError"
              /\ last'.error.code = "INVALID_AGENT_CONFIG"
              /\ last'.error.message[2][1] = "Agent with name already exists"
              /\ agents' = agents
              /\ heap' = heap )
    ]_vars

\* C1's case: a call that found a stored agent of its name has thrown, with
\* agents stored.
C1_Witness ==
  /\ last.op = "create"
  /\ last.step = "threw"
  /\ IsSome(last.call.existing)
  /\ last.config.name \in StoredNames(agents, heap)

\* C2: the repository never holds two agents of one name.
C2_NoTwoAgentsShareAName ==
  \A i, j \in DOMAIN agents :
    i # j => heap[agents[i].ref].config.name # heap[agents[j].ref].config.name

\* C3's malformed configs: null or no object, a name that is missing, empty or
\* all spaces, no type, no llmConfig, no llmConfig.modelName.
Malformed(config) ==
  \/ config.kind # "object"
  \/ config.name = None
  \/ \A i \in DOMAIN Val(config.name) : Val(config.name)[i] = " "
  \/ config.type = None
  \/ config.llmConfig = None
  \/ Val(config.llmConfig).modelName = None

\* C3: execute called with a malformed config throws InvalidAgentConfigError
\* in its first step; no invocation is left in flight that could save, and the
\* repository and the heap are left as they were.
C3_MalformedConfigRejected ==
  [][ ( /\ last'.op = "create"
        /\ last'.step \in {"rejected", "called"}
        /\ Malformed(last'.config) )
      => ( /\ last'.step = "rejected"
           /\ last'.error.name = "InvalidAgentConfigError"
           /\ last'.error.code = "INVALID_AGENT_CONFIG"
           /\ calls' = calls
           /\ agents' = agents
           /\ heap' = heap )
    ]_vars

\* C3's case: a config whose name is all spaces has been rejected, with
\* agents stored.
C3_Witness ==
  /\ last.op = "create"
  /\ last.step = "rejected"
  /\ last.config.kind = "object"
  /\ last.config.name = Some(<<" ">>)
  /\ agents # <<>>

\* C7: GetAgentUseCase.execute(id) returns the agent stored under id, and
\* throws AgentNotFoundError (AGENT_NOT_FOUND, 404) when none is; the
\* repository and the heap are left as they were.
C7_GetAgentFoundOrNotFound ==
  [][ last'.op = "getAgent"
      => /\ agents' = agents
         /\ heap' = heap
         /\ IF last'.agentId \in StoredIds(agents)
            THEN /\ last'.step = "returned"
                 /\ [key |-> last'.agentId, ref |-> last'.agent] \in Entries(agents)
            ELSE /\ last'.step = "threw"
                 /\ last'.error.name = "AgentNotFoundError"
                 /\ last'.error.code = "AGENT_NOT_FOUND"
                 /\ last'.error.statusCode = 404
    ]_vars

\* C7's case: an id that is not stored was asked for while others are stored.
C7_Witness ==
  /\ last.op = "getAgent"
  /\ last.step = "threw"
  /\ last.agentId \notin StoredIds(agents)
  /\ agents # <<>>


\* The entries a Map holds under one key.
EntriesOf(m, k) == {e \in Entries(m) : e.key = k}
AgentWrites == {"agents.save", "agents.update", "agents.delete"}

\* C4: the repository starts empty; after save(agent) the repository holds
\* that object under its id, and the entry under an id changes only in a save,
\* update or delete of that id; after delete(id) nothing is held under id;
\* findById(id) returns the one object held under id, or null; exists(id) says
\* whether id is held and count() is the number of ids held.
C4_SaveThenFindById ==
  /\ agents = <<>>
  /\ [][ /\ last'.op = "agents.save"
            => /\ EntriesOf(agents', last'.agentId)
                    = {[key |-> last'.agentId, ref |-> last'.ref]}
               /\ heap'[last'.ref] = heap[last'.ref]
         /\ last'.op = "agents.delete"
            => EntriesOf(agents', last'.agentId) = {}
         /\ \A id \in KnownIds :
              ~(last'.op \in AgentWrites /\ last'.agentId = id)
              => EntriesOf(agents', id) = EntriesOf(agents, id)
         /\ last'.op = "agents.findById"
            => /\ Cardinality(EntriesOf(agents, last'.agentId)) <= 1
               /\ \A e \in EntriesOf(agents, last'.agentId) :
                    /\ last'.result = Some(e.ref)
                    /\ heap[e.ref].id = last'.agentId
               /\ EntriesOf(agents, last'.agentId) = {} => last'.result = None
         /\ last'.op = "agents.exists"
            => last'.result = (last'.agentId \in StoredIds(agents))
         /\ last'.op = "agents.count"
            => last'.result = Cardinality(StoredIds(agents))
       ]_vars

\* C4's case: findById has returned the agent stored under its id, with a
\* second id stored.
C4_Witness ==
  /\ last.op = "agents.findById"
  /\ last.result = Some(2)
  /\ Len(agents) >= 2

\* The elements of list at the 0-based positions skip .. skip + take - 1.
Positions(list, skip, take) ==
  LET n == Min(take, Len(list) - skip)
  IN [k \in 1..(IF n > 0 THEN n ELSE 0) |-> list[skip + k]]

\* The stored objects a paged query is about, in insertion order.
Matches ==
  IF last.op = "agents.findAll"
    THEN [i \in DOMAIN agents |-> agents[i].ref]
  ELSE IF last.op = "sessions.findByAgentId"
    THEN MapValues(SelectSeq(sessions, LAMBDA e : sheap[e.ref].agentId = last.agentId))
  ELSE MapValues(SelectSeq(sessions, LAMBDA e : sheap[e.ref].status = last.status))

PagedQueries == {"agents.findAll", "sessions.findByAgentId", "sessions.findByStatus"}

\* C5: a paged query with a cursor (skip >= 0, take >= 0) returns the matches
\* at positions [skip, skip + take), so at most take of them, the number of
\* matches as total, and the requested skip and take.
C5_PageIsTheRequestedSlice ==
  (last.op \in PagedQueries /\ last.cursor # None)
  => LET c == Val(last.cursor)
     IN /\ Len(last.result.data) <= c.take
        /\ last.result.data = Positions(Matches, c.skip, c.take)
        /\ last.result.total = Len(Matches)
        /\ last.result.skip = c.skip
        /\ last.result.take = c.take

\* What does hold of the paged queries: C5 for every cursor whose take is at
\* least 1 (a take of 0 is read as no take, and DefaultTake applies).
C5_PageForPositiveTake ==
  (last.op \in PagedQueries /\ last.cursor # None /\ Val(last.cursor).take >= 1)
  => LET c == Val(last.cursor)
     IN /\ Len(last.result.data) <= c.take
        /\ last.result.data = Positions(Matches, c.skip, c.take)
        /\ last.result.total = Len(Matches)
        /\ last.result.skip = c.skip
        /\ last.result.take = c.take

\* C6: delete of an id that is not stored returns without an error and leaves
\* both repositories and the stored objects as they were.
C6_DeleteAbsentIsNoOp ==
  [][ /\ (last'.op = "agents.delete" /\ last'.agentId \notin StoredIds(agents))
         => ( /\ last'.step = "returned"
              /\ agents' = agents
              /\ sessions' = sessions
              /\ heap' = heap
              /\ sheap' = sheap )
      /\ (last'.op = "sessions.delete" /\ last'.sessionId \notin StoredIds(sessions))
         => ( /\ last'.step = "returned"
              /\ agents' = agents
              /\ sessions' = sessions
              /\ heap' = heap
              /\ sheap' = sheap )
    ]_vars

\* C6's case: a session id that is not stored has been deleted while agents
\* and sessions are stored.
C6_Witness ==
  /\ last.op = "sessions.delete"
  /\ last.sessionId \notin StoredIds(sessions)
  /\ sessions # <<>>
  /\ agents # <<>>


\* C8: every Agent constructed holds a config whose name has a character that
\* is no space, whose type is set and whose llmConfig.modelName is non-empty,
\* whatever updateConfig, activate and deactivate calls were made on it,
\* failed ones included.
C8_AgentConfigStaysValid ==
  \A r \in DOMAIN heap :
    LET config == heap[r].config
    IN /\ config.name # None
       /\ \E i \in DOMAIN Val(config.name) : Val(config.name)[i] # " "
       /\ config.type # None
       /\ Val(config.type) # ""
       /\ config.llmConfig # None
       /\ Val(config.llmConfig).modelName # None
       /\ Val(Val(config.llmConfig).modelName) # <<>>

\* C8's case: an updateConfig has failed on an agent that an earlier
\* updateConfig renamed.
C8_Witness ==
  /\ last.op = "agent.updateConfig"
  /\ last.step = "threw"
  /\ heap[last.ref].config.name = Some(<<"b">>)


\* The status each status-changing method assigns.
Target(op) ==
  CASE op = "session.pause" -> PAUSED
    [] op = "session.resume" -> ACTIVE
    [] op = "session.complete" -> COMPLETED
    [] op = "session.fail" -> FAILED
    [] op = "session.interrupt" -> INTERRUPTED

\* The statuses from which each method assigns its status.
Sources(op) ==
  CASE op = "session.pause" -> {ACTIVE}
    [] op = "session.resume" -> {PAUSED}
    [] op = "session.complete" -> {ACTIVE, PAUSED}
    [] op = "session.fail" -> SessionStatusEnum
    [] op = "session.interrupt" -> SessionStatusEnum

StatusChanges ==
  {"session.pause", "session.resume", "session.complete", "session.fail",
   "session.interrupt"}

\* C9 as stated: each of pause, resume, complete, fail and interrupt leaves
\* the session with its target status, whatever status it was in; complete()
\* on a failed session leaves it completed.
C9_StatusAssignedFromAnyStatus ==
  [][ last'.op \in StatusChanges
      => sheap'[last'.ref].status = Target(last'.op) ]_vars

\* C9 as the code has it: pause assigns paused only from active, resume
\* assigns active only from paused, complete assigns completed only from
\* active or paused, and from any other status each leaves the session as it
\* was (status and updatedAt); fail and interrupt assign their status from
\* any status.  complete() on a failed session leaves it failed.
C9_StatusAssignedFromItsSources ==
  [][ last'.op \in StatusChanges
      => IF sheap[last'.ref].status \in Sources(last'.op)
         THEN /\ sheap'[last'.ref].status = Target(last'.op)
              /\ sheap'[last'.ref].updatedAt = clock
         ELSE sheap'[last'.ref] = sheap[last'.ref] ]_vars

\* C9's case: complete() has been called on a failed session, which is still
\* failed.
C9_Witness ==
  /\ last.op = "session.complete"
  /\ sheap[last.ref].status = FAILED


\* C10: execute(toolId, input) returns what the function registered under
\* toolId returns; it throws ToolExecutionError (TOOL_EXECUTION_ERROR) when
\* toolId is not registered and when that function throws or rejects; the
\* registry is left as it was.
C10_ExecuteReturnsOrWraps ==
  [][ last'.op = "tools.execute"
      => /\ tools' = tools
         /\ llmTools' = llmTools
         /\ IF EntriesOf(tools, last'.toolId) = {}
            THEN /\ last'.step = "threw"
                 /\ last'.error.name = "ToolExecutionError"
                 /\ last'.error.code = "TOOL_EXECUTION_ERROR"
            ELSE \A e \in EntriesOf(tools, last'.toolId) :
                   IF last'.input = "ok"
                   THEN /\ last'.step = "returned"
                        /\ last'.result = <<e.ref.fn, "ok">>
                   ELSE /\ last'.step = "threw"
                        /\ last'.error.name = "ToolExecutionError"
                        /\ last'.error.code = "TOOL_EXECUTION_ERROR"
    ]_vars

\* C10's case: a registered tool's function has rejected and execute has
\* thrown, with two tools registered.
C10_Witness ==
  /\ last.op = "tools.execute"
  /\ last.step = "threw"
  /\ last.input = "reject"
  /\ last.toolId \in StoredIds(tools)
  /\ Len(tools) = 2


\* The tuple two configs must agree on to share a client.
CacheTuple(config) ==
  <<config.provider, config.modelName, config.temperature, config.maxTokens>>

\* C11: two valid configs have one cache key if and only if they agree on
\* (provider, modelName, temperature, maxTokens), absent counting as a value
\* of its own; the cache holds at most one instance per key and no instance
\* under two keys; getLLM of a valid config returns the instance cached under
\* its key when there is one and otherwise a new instance, which it caches;
\* clearCache empties the cache and nothing else removes an entry.
C11_OneClientPerTuple ==
  /\ \A c1, c2 \in ValidLlmConfigs :
       (generateCacheKey(c1) = generateCacheKey(c2)) <=> (CacheTuple(c1) = CacheTuple(c2))
  /\ [][ /\ \A i, j \in DOMAIN llmCache' :
              i # j => /\ llmCache'[i].key # llmCache'[j].key
                       /\ llmCache'[i].ref # llmCache'[j].ref
         /\ (last'.op = "llm.getLLM" /\ last'.config \in ValidLlmConfigs)
            => /\ last'.step = "returned"
               /\ [key |-> generateCacheKey(last'.config), ref |-> last'.result]
                    \in Entries(llmCache')
               /\ IF generateCacheKey(last'.config) \in StoredIds(llmCache)
                  THEN /\ [key |-> generateCacheKey(last'.config), ref |-> last'.result]
                            \in Entries(llmCache)
                       /\ UNCHANGED <<llmCache, llms>>
                  ELSE /\ last'.result \notin DOMAIN llms
                       /\ last'.result \in DOMAIN llms'
         /\ last'.op = "llm.clearCache" => llmCache' = <<>>
         /\ last'.op # "llm.clearCache" => Entries(llmCache) \subseteq Entries(llmCache')
       ]_vars

\* C11's case: a config has been given the instance created for another
\* config of its tuple (the two differ in topP), with a second instance cached.
C11_Witness ==
  /\ last.op = "llm.getLLM"
  /\ last.step = "returned"
  /\ last.cached
  /\ last.config \in ValidLlmConfigs
  /\ llms[last.result].topP # last.config.topP
  /\ Len(llmCache) >= 2


\* C12: the filter answers a domain error with the error's statusCode as HTTP
\* status, and with a body whose statusCode, code, error and message are the
\* error's statusCode, code, class name and message.
C12_FilterMirrorsTheError ==
  last.op = "filter.catch"
  => /\ last.exception.name \in {"AgentNotFoundError", "SessionNotFoundError",
                                 "InvalidAgentConfigError", "ToolExecutionError"}
     /\ last.status = last.exception.statusCode
     /\ last.body.statusCode = last.exception.statusCode
     /\ last.body.code = last.exception.code
     /\ last.body.error = last.exception.name
     /\ last.body.message = last.exception.message

\* C12's case: a SessionNotFoundError has been answered with 404, at a time
\* later than the start.
C12_Witness ==
  /\ last.op = "filter.catch"
  /\ last.exception.name = "SessionNotFoundError"
  /\ last.status = 404
  /\ last.body.timestamp > 0


\* How often node occurs in a run's trace.
Runs(node) == Cardinality({i \in DOMAIN graph.trace : graph.trace[i] = node})

\* A run of kind is started and has not reached END.
Running(kind) == graph.kind = kind /\ graph.node # "END"
Ended(kind) == graph.kind = kind /\ graph.node = "END"

C14_ToolsOnlyAfterToolCall ==
  [][ /\ last'.op = "basic.toolsNode"
         => /\ last.op = "basic.agentNode"
            /\ last.response.type = "ai"
            /\ IsSome(last.response.tool_calls)
            /\ Len(Val(last.response.tool_calls)) >= 1
            /\ graph.state.iterations < graph.maxIterations
      /\ last'.op = "basic.agentNode"
         => IF /\ last'.response.type = "ai"
               /\ IsSome(last'.response.tool_calls)
               /\ Len(Val(last'.response.tool_calls)) >= 1
               /\ graph'.state.iterations < graph.maxIterations
            THEN graph'.node = "tools"
            ELSE graph'.node = "END"
    ]_vars

\* C14's case: the tools node has run twice in one run, the second time on a
\* response with two tool calls.
C14_Witness ==
  /\ last.op = "basic.toolsNode"
  /\ Runs("tools") = 2
  /\ Len(Val(LastMessage(graph.state).tool_calls)) = 2


\* C15: a run of a MultiAgentGraph with maxIterations >= 1 has at most
\* maxIterations supervisor rounds and reaches END.
C15_MultiRunEndsWithinLimit ==
  /\ []((graph.kind = "multi" /\ graph.maxIterations >= 1)
        => Runs("supervisor") <= graph.maxIterations)
  /\ (Running("multi") /\ graph.maxIterations >= 1) ~> Ended("multi")


\* C16: update(agent) with no agent stored under the agent's id gives a
\* rejected promise and leaves the repository as it was; with one stored it
\* returns and the repository then holds the agent given under that id, every
\* other entry being as it was.
C16_UpdateRejectsOrReplaces ==
  [][ last'.op = "agents.update"
      => IF last'.agentId \notin StoredIds(agents)
         THEN /\ last'.step = "threw"
              /\ ~last'.sync
              /\ agents' = agents
         ELSE /\ last'.step = "returned"
              /\ EntriesOf(agents', last'.agentId)
                   = {[key |-> last'.agentId, ref |-> last'.ref]}
              /\ StoredIds(agents') = StoredIds(agents)
    ]_vars


\* The last n elements of arr, or all of it when it has fewer.
LastOf(arr, n) == SubSeq(arr, Len(arr) - Min(Len(arr), n) + 1, Len(arr))

\* C17: after trimMemory(sessionId, maxMessages) with maxMessages >= 0 the
\* session's memory is the last min(size, maxMessages) of its messages, in
\* order, so its size is at most maxMessages; every other session's memory is
\* as it was.
C17_TrimKeepsTheLastMessages ==
  [][ (last'.op = "memory.trimMemory" /\ last'.maxMessages >= 0)
      => /\ MemoryOf(memory', last'.sessionId)
              = LastOf(MemoryOf(memory, last'.sessionId), last'.maxMessages)
         /\ Len(MemoryOf(memory', last'.sessionId)) <= last'.maxMessages
         /\ \A other \in MemorySessions \ {last'.sessionId} :
              /\ MemoryOf(memory', other) = MemoryOf(memory, other)
              /\ MapHas(memory', other) = MapHas(memory, other)
    ]_vars

\* What does hold of trimMemory: C17 for every maxMessages of at least 1 (a
\* maxMessages of 0 makes the slice start at -0, which is the whole array).
C17_TrimForPositiveMax ==
  [][ (last'.op = "memory.trimMemory" /\ last'.maxMessages >= 1)
      => /\ MemoryOf(memory', last'.sessionId)
              = LastOf(MemoryOf(memory, last'.sessionId), last'.maxMessages)
         /\ Len(MemoryOf(memory', last'.sessionId)) <= last'.maxMessages
         /\ \A other \in MemorySessions \ {last'.sessionId} :
              /\ MemoryOf(memory', other) = MemoryOf(memory, other)
              /\ MapHas(memory', other) = MapHas(memory, other)
    ]_vars


\* C18: the execute node runs only directly after a human_review step that
\* left metadata.humanApproval 'approved' for the routing decision; after a
\* human_review step that left 'rejected' the run is at END, and after one
\* that left any other value the plan node is next.
C18_ExecuteOnlyWhenApproved ==
  [][ /\ (last'.op = "hitl.node" /\ last'.node = "execute")
         => /\ last.op = "hitl.node"
            /\ last.node = "human_review"
            /\ MetadataGet(graph.state, "humanApproval") = Some("approved")
      /\ (last'.op = "hitl.node" /\ last'.node = "human_review")
         => graph'.node
              = (CASE MetadataGet(graph'.state, "humanApproval") = Some("approved")
                        -> "execute"
                   [] MetadataGet(graph'.state, "humanApproval") = Some("rejected")
                        -> "END"
                   [] OTHER -> "plan")
    ]_vars

\* C18's case: a run entered with the feedback 'approved' has passed
\* human_review, which sent it back to plan.
C18_Witness ==
  /\ last.op = "hitl.node"
  /\ last.node = "human_review"
  /\ "feedbackReceivedAt" \in DOMAIN graph.state.metadata
  /\ graph.node = "plan"


\* The keys of the events in order, event after event.
RECURSIVE KeysOfAll(_)
KeysOfAll(events) ==
  IF events = <<>> THEN <<>>
  ELSE [i \in 1..Len(Head(events).entries) |-> Head(events).entries[i].key]
         \o KeysOfAll(Tail(events))

IsPrefix(s, t) == Len(s) <= Len(t) /\ \A i \in 1..Len(s) : s[i] = t[i]

\* The events emitted between the first and (when there is one) the
\* terminal event.
StreamUpdates ==
  LET n == Len(stream.out)
      hi == IF stream.out[n].type \in {"end", "error"} THEN n - 1 ELSE n
  IN SubSeq(stream.out, 2, hi)

StreamShape ==
  (stream.pc \notin {"none", "created"}) =>
    LET out == stream.out
        n == Len(out)
        ids == [i \in 1..Len(StreamUpdates) |-> StreamUpdates[i].nodeId]
    IN /\ n >= 1
       /\ out[1].type = "start"
       /\ \A i \in 2..n : out[i].type # "start"
       /\ \A i \in 1..(n - 1) : out[i].type \notin {"end", "error"}
       /\ \A i \in 1..Len(StreamUpdates) : StreamUpdates[i].type = "node_update"
       /\ IsPrefix(ids, KeysOfAll(stream.consumed))
       /\ (stream.pc \in {"terminal", "done"}) =>
            /\ ids = KeysOfAll(stream.consumed)
            /\ stream.outcome = "completed" =>
                 /\ out[n].type = "end"
                 /\ out[n].data = Some(Len(stream.consumed))
            /\ stream.outcome = "threw" => out[n].type = "error"

\* C19: streamGraphEvents emits 'start' first and once, then one
\* 'node_update' per key of each source event in source order, and last one
\* terminal event: 'end' with the number of source events consumed when the
\* source completed, 'error' and no 'end' when it threw; nothing follows the
\* terminal event, and a generator that is driven gets there.
C19_StreamEventOrder ==
  /\ []StreamShape
  /\ [][stream.pc = "done" /\ stream'.pc = "done" => stream'.out = stream.out]_vars
  /\ (stream.pc = "created") ~> (stream.pc = "done")

\* C19's case: a source that delivered a null event and an event of two keys
\* and then threw has been streamed to the end.
C19_Witness ==
  /\ stream.pc = "done"
  /\ stream.outcome = "threw"
  /\ Len(stream.consumed) = 2
  /\ stream.consumed[1].isNull
  /\ Len(stream.out) = 4


\* How often node has run in the run so far.
TimesRun(node) == Cardinality({i \in 1..Len(graph.trace) : graph.trace[i] = node})

\* C20: in a RAGAgentGraph run the rewrite_query node executes at most 2
\* times, whatever the retriever gives and also when the LLM call inside
\* rewrite_query fails.
C20_RewriteAtMostTwice ==
  graph.kind = "rag" => TimesRun("rewrite_query") <= MaxRewrites

\* In runs in which the LLM call inside rewrite_query never failed, the node
\* has run at most 2 times and a third grade_documents step leads to generate.
C20_RewriteAtMostTwiceWhenLlmAnswers ==
  (graph.kind = "rag" /\ "rewriteError" \notin DOMAIN graph.state.metadata) =>
    /\ TimesRun("rewrite_query") <= MaxRewrites
    /\ TimesRun("rewrite_query") = MaxRewrites /\ TimesRun("grade_documents") = 3
         => graph.node \in {"generate", "END"}


\* C21: a run started with HITLAgentGraph.run(query) on a graph constructed
\* with maxIterations >= 1 has executed the plan node at most maxIterations
\* times.
C21_HitlPlanWithinLimit ==
  (/\ graph.kind = "hitl"
   /\ graph.maxIterations >= 1
   /\ "feedbackReceivedAt" \notin DOMAIN graph.state.metadata)
    => TimesRun("plan") <= graph.maxIterations


\* What processHumanFeedback may change: the three feedback keys of metadata.
FeedbackKeys == {"humanApproval", "humanFeedbackNotes", "feedbackReceivedAt"}

\* The state a run was entered with differs from the input of
\* processHumanFeedback in the feedback keys of metadata only, and there it
\* holds the feedback given.
FeedbackStateOnlyAddsFeedback ==
  (last'.op = "hitl.run" /\ last'.feedback # None) =>
    LET input == HitlInput(<<"q">>)
        result == graph'.state
    IN /\ DOMAIN result = DOMAIN input
       /\ \A k \in DOMAIN input \ {"metadata"} : result[k] = input[k]
       /\ DOMAIN result.metadata = DOMAIN input.metadata \cup FeedbackKeys
       /\ \A k \in DOMAIN input.metadata \ FeedbackKeys :
            result.metadata[k] = input.metadata[k]
       /\ result.metadata.humanApproval = Val(last'.feedback)

\* C22: a human_review step entered with metadata.humanApproval 'approved'
\* is followed by the execute node, one entered with 'rejected' ends the
\* run, and processHumanFeedback returns its input with only the feedback
\* keys of metadata set.
C22_FeedbackDecidesRoute ==
  [][ /\ (/\ last'.op = "hitl.node"
          /\ last'.node = "human_review"
          /\ MetadataGet(graph.state, "humanApproval") = Some("approved"))
         => graph'.node = "execute"
      /\ (/\ last'.op = "hitl.node"
          /\ last'.node = "human_review"
          /\ MetadataGet(graph.state, "humanApproval") = Some("rejected"))
         => graph'.node = "END"
      /\ FeedbackStateOnlyAddsFeedback
    ]_vars

\* processHumanFeedback's part of C22 on its own.
C22_FeedbackIsAPureMetadataUpdate == [][FeedbackStateOnlyAddsFeedback]_vars


\* C23: in a MultiAgentGraph every worker added with registerWorker is a node
\* of the graph that was built, and the route routeWork returns after a
\* supervisor step is a key of the conditional-edge map that, unless it is
\* 'end', names a node.
C23_RoutesAreEdgeKeys ==
  graph.kind = "multi" =>
    /\ \A i \in DOMAIN graph.workers : graph.workers[i] \in graph.nodes
    /\ last.op = "multi.supervisorNode" =>
         LET route == routeWork(graph.state, graph.workers, graph.maxIterations)
         IN /\ route \in graph.routeOptions
            /\ route # EndRoute => route \in graph.nodes


\* The positions of the LLM tools that register created for toolId.
LLMToolsOf(arr, toolId) == {i \in 1..Len(arr) : arr[i].toolDef.id = toolId}

\* C24: unregister(toolId) returns true exactly when toolId was registered;
\* after it returned true getTool(toolId) is null, toolExists(toolId) is false
\* and getToolsAsLLMTools() holds no LLM tool created for toolId; for an
\* unknown id it returns false and changes nothing.
C24_UnregisterRemovesFromBothViews ==
  [][ last'.op = "tools.unregister"
      => /\ last'.result = toolExists(tools, last'.toolId)
         /\ last'.result
              => /\ getTool(tools', last'.toolId) = None
                 /\ ~toolExists(tools', last'.toolId)
                 /\ LLMToolsOf(getToolsAsLLMTools(llmTools'), last'.toolId) = {}
         /\ ~last'.result => tools' = tools /\ llmTools' = llmTools
    ]_vars

\* unregister's effect on the Map and its result, without the LLM tools.
C24_UnregisterRemovesFromTheMap ==
  [][ last'.op = "tools.unregister"
      => /\ last'.result = toolExists(tools, last'.toolId)
         /\ last'.result
              => /\ getTool(tools', last'.toolId) = None
                 /\ ~toolExists(tools', last'.toolId)
                 /\ llmTools' = llmTools
         /\ ~last'.result => tools' = tools /\ llmTools' = llmTools
    ]_vars


\* The ids of the definitions getAllTools returns.
RegisteredIds == {getAllTools(tools)[i].id : i \in 1..Len(getAllTools(tools))}

\* getToolsAsLLMTools() holds exactly one LLM tool per registered id, the one
\* built around the stored definition, and none for any other id.
OneLLMToolPerId ==
  LET arr == getToolsAsLLMTools(llmTools)
  IN /\ \A id \in RegisteredIds :
          /\ Cardinality(LLMToolsOf(arr, id)) = 1
          /\ \A i \in LLMToolsOf(arr, id) : Some(arr[i].toolDef) = getTool(tools, id)
     /\ \A i \in 1..Len(arr) : arr[i].toolDef.id \in RegisteredIds

\* C25: a register call on a registry that holds one LLM tool per registered
\* id leaves it so: the definition given is the one stored under its id, and
\* getToolsAsLLMTools() holds one LLM tool for that id, built around it, and
\* one for every other registered id.
C25_OneLLMToolPerId ==
  [][ (last'.op = "tools.register" /\ OneLLMToolPerId)
      => /\ getTool(tools', last'.toolDef.id) = Some(last'.toolDef)
         /\ OneLLMToolPerId'
    ]_vars

\* register's effect on the Map, and registers of ids that are new.
C25_RegisterStoresTheDefinition ==
  [][ (last'.op = "tools.register" /\ OneLLMToolPerId)
      => /\ getTool(tools', last'.toolDef.id) = Some(last'.toolDef)
         /\ ~toolExists(tools, last'.toolDef.id) => OneLLMToolPerId'
    ]_vars


\* config with every field that partial has taken from partial.
Overridden(config, partial) ==
  [k \in DOMAIN config \cup DOMAIN partial |->
     IF k \in DOMAIN partial THEN partial[k] ELSE config[k]]

\* C26: updateConfig(partial) throws exactly when the old config overridden
\* by partial is invalid, and then the agent's config, active flag and
\* updatedAt are what they were; otherwise the agent's config is the old
\* config overridden by partial.  No other agent is touched.
C26_UpdateConfigAllOrNothing ==
  [][ last'.op = "agent.updateConfig"
      => LET ref == last'.ref
             merged == Overridden(heap[ref].config, last'.partial)
         IN /\ DOMAIN heap' = DOMAIN heap
            /\ \A r \in DOMAIN heap \ {ref} : heap'[r] = heap[r]
            /\ heap'[ref].id = heap[ref].id
            /\ heap'[ref].isActive = heap[ref].isActive
            /\ IF AgentValidateConfig(merged) # None
               THEN /\ last'.step = "threw"
                    /\ heap'[ref].config = heap[ref].config
                    /\ heap'[ref].updatedAt = heap[ref].updatedAt
               ELSE /\ last'.step = "returned"
                    /\ heap'[ref].config = merged
    ]_vars

\* C26's case: updateConfig({ name: '' }) has thrown on an agent at a time
\* later than the agent's updatedAt.
C26_Witness ==
  /\ last.op = "agent.updateConfig"
  /\ last.step = "threw"
  /\ last.partial = [name |-> Some(<<>>)]
  /\ heap[last.ref].updatedAt < clock

====
